---- MODULE Spec2Model ----
(***************************************************************************)
(* da-forge: materialization (create_raw_manifest), capability revision    *)
(* (revise_da_manifest), packaging (zip_manifest, extract_ids_from_zip)    *)
(* and deployment (deploy_agent, sideload_to_teams) of a Declarative Agent *)
(* manifest folder.                                                        *)
(*                                                                         *)
(* JSON values are represented as follows: an object is a function from    *)
(* its keys (strings) to its values, an array is a sequence, a string is a *)
(* string, and the literals true, false and null are the strings JTrue,    *)
(* JFalse and JNull.  A JSON value that is not an object, met where the    *)
(* code expects an object, is the marker NonObject.                        *)
(***************************************************************************)
EXTENDS Integers, Sequences, FiniteSets, TLC

VARIABLES
    template,   \* the package's template folder: [exists, files]
    socket,     \* sockets/<name>.json: [exists, parses, caps]
    raw,        \* raw_manifests/<name>/: [exists, files]
    uuids,      \* number of uuid.uuid4() calls made so far
    last,       \* the last operation and how it ended: [op, outcome]
    buckets,    \* the two lists built by the last revise_da_manifest call
    agent,      \* the agent name every call of the behaviour is made for
    created,    \* last create_raw_manifest call: [existing_ids, ids]
    issued,     \* the (manifest id, agent id) pairs generated so far
    zipped,     \* zipped_manifests/ and <name>.zip: [folder, exists, entries, dirs]
    teamsapp,   \* how the external `teamsapp install` command behaves
    deploy,     \* deploy_agent's activation: [pc, skip_sideload, stages, result]
    ret,        \* the value the last call returned
    trip,       \* position in the materialize-revise-archive-extract scenario
    runs        \* create_raw_manifest activations that run side by side

vars == <<template, socket, raw, uuids, last, buckets, agent, created, issued,
          zipped, teamsapp, deploy, ret, trip, runs>>

-----------------------------------------------------------------------------
(* Bounds of the model *)

MaxCaps == 2
MaxReviseCaps == 2
MaxItems == 2
MaxCreates == 2

-----------------------------------------------------------------------------
(* JSON helpers *)

JTrue == "true"
JFalse == "false"
JNull == "null"

NonObject == [nonobject |-> "scalar"]
IsObject(v) == "nonobject" \notin DOMAIN v

\* The text of a file that json.load rejects
NotJson == [notjson |-> "{invalid json content"]
IsJson(doc) == "notjson" \notin DOMAIN doc

Has(d, k) == k \in DOMAIN d
Put(d, k, v) == [x \in (DOMAIN d) \cup {k} |-> IF x = k THEN v ELSE d[x]]
Del(d, k) == [x \in (DOMAIN d) \ {k} |-> d[x]]
Without(d, ks) == [x \in (DOMAIN d) \ ks |-> d[x]]

-----------------------------------------------------------------------------
(* config.py *)

MANIFEST_FILENAME == "declarativeAgent_0.json"
APP_MANIFEST_FILENAME == "manifest.json"
COLOR_ICON == "color.png"
OUTLINE_ICON == "outline.png"

CAPABILITY_ONEDRIVE_SHAREPOINT == "OneDriveAndSharePoint"
CAPABILITY_WEBSEARCH == "WebSearch"
CAPABILITY_EMAIL == "Email"
CAPABILITY_MEETINGS == "Meetings"
CAPABILITY_PAGES == "Pages"
CAPABILITY_CODE_INTERPRETER == "CodeInterpreter"

FIELD_CAPABILITIES == "capabilities"
FIELD_EXPERIMENTAL_CAPABILITIES == "x-experimental_capabilities"
FIELD_FORCE_FLUXV3 == "x-force_fluxv3"
FIELD_BEHAVIOR_OVERRIDES == "behavior_overrides"
FIELD_ITEMS_BY_SHAREPOINT_IDS == "items_by_sharepoint_ids"
FIELD_ITEMS_BY_ID == "x-items_by_id"

FIELD_X_PART_ID == "x-part_id"
FIELD_PART_ID == "part_id"
FIELD_X_PART_TYPE == "x-part_type"
FIELD_PART_TYPE == "part_type"

FIELD_TYPE == "type"
FIELD_NAME == "name"

FIELD_BEHAVIOR_OVERRIDES_VALUE ==
    [special_instructions |-> [discourage_model_knowledge |-> JTrue]]

FIELD_ITEMS_BY_URL == "items_by_url"
FIELD_X_FORCE_BOTSPEAK == "x-force_botspeak"

CAPABILITY_DEFAULT_FIELDS ==
    (FIELD_ITEMS_BY_URL :> <<>>) @@ (FIELD_X_FORCE_BOTSPEAK :> JFalse)

-----------------------------------------------------------------------------
(* The template folder (templates/default): two JSON documents and two    *)
(* image assets.  The documents carry the fields create_raw_manifest reads *)
(* and writes; the agent-level template may or may not ship capability     *)
(* fields of its own.                                                      *)

TemplateAppManifest ==
    [id |-> "template-manifest-id",
     name |-> [short |-> "template", full |-> "template"],
     description |-> [short |-> "template", full |-> "template"],
     copilotAgents |->
        [declarativeAgents |->
            << [id |-> "template-agent-id", file |-> MANIFEST_FILENAME] >>]]

TemplateDAManifest ==
    [id |-> "template-agent-id",
     name |-> "template",
     description |-> "template",
     instructions |-> "template"]

TemplateDAManifestWithCapabilities ==
    (FIELD_CAPABILITIES :> << [name |-> "TemplateCapability"] >>) @@
    (FIELD_FORCE_FLUXV3 :> JFalse) @@
    (FIELD_BEHAVIOR_OVERRIDES :>
        [special_instructions |-> [discourage_model_knowledge |-> JFalse]]) @@
    TemplateDAManifest

TemplateFiles(da) ==
    (APP_MANIFEST_FILENAME :> TemplateAppManifest) @@
    (MANIFEST_FILENAME :> da) @@
    (COLOR_ICON :> "color-image") @@
    (OUTLINE_ICON :> "outline-image")

TemplateFolders ==
    { [exists |-> e, files |-> TemplateFiles(da)] :
        e \in BOOLEAN,
        da \in {TemplateDAManifest, TemplateDAManifestWithCapabilities} }

NoFolder == [exists |-> FALSE, files |-> <<>>]

-----------------------------------------------------------------------------
(* Inputs of create_raw_manifest *)

AgentName == "Foo"
\* (description, instruction): the defaults, and a pair given on the command line
Texts == { <<"-", "-">>, <<"Email assistant", "Help with emails">> }

\* Agent names of 3, 29, 30, 31 and 45 characters
Name29 == "Quarterly Sales Report Helper"
Name30 == "Quarterly Sales Report Helpers"
Name31 == "Quarterly Sales Report Helpers2"
Name45 == "Quarterly Sales Report Helpers For The Region"
AgentNames == {AgentName, Name29, Name30, Name31, Name45}

None == <<>>
ExistingIds == {None, <<"kept-manifest-id", "kept-agent-id">>}

\* str(uuid.uuid4()): the n-th identifier drawn; draws never repeat.
Uuid4(n) == "uuid-" \o ToString(n)

ShortNameLimit == 30

\* ShortName cutting one character early: name[:29] from 30 characters on.
ShortNameOffByOne(name) ==
    IF Len(name) >= ShortNameLimit THEN SubSeq(name, 1, ShortNameLimit - 1) ELSE name

\* manifest.py line 72
ShortName(name) ==
    IF Len(name) > ShortNameLimit THEN SubSeq(name, 1, ShortNameLimit) ELSE name

\* StampAppManifest with line 80 assigning manifest_id to the nested id.
StampAppManifestNestedManifestId(manifest_json, name, description, manifest_id, declarative_agent_id) ==
    LET m1 == Put(manifest_json, "id", manifest_id)
        m2 == [m1 EXCEPT !["name"] = Put(Put(@, "short", ShortName(name)), "full", name)]
        m3 == [m2 EXCEPT !["description"] = Put(@, "full", description)]
    IN  [m3 EXCEPT !["copilotAgents"]["declarativeAgents"][1] =
                        Put(@, "id", manifest_id)]

\* manifest.py lines 63-84: the app-level document as rewritten
StampAppManifest(manifest_json, name, description, manifest_id, declarative_agent_id) ==
    LET m1 == Put(manifest_json, "id", manifest_id)
        m2 == [m1 EXCEPT !["name"] = Put(Put(@, "short", ShortName(name)), "full", name)]
        m3 == [m2 EXCEPT !["description"] = Put(@, "full", description)]
    IN  [m3 EXCEPT !["copilotAgents"]["declarativeAgents"][1] =
                        Put(@, "id", declarative_agent_id)]

\* StampDAManifest leaving the id of the loaded document as it is.
StampDAManifestKeepingId(da_json, name, description, instruction, declarative_agent_id) ==
    LET d2 == Put(da_json, "name", name)
        d3 == Put(d2, "description", description)
    IN  Put(d3, "instructions", instruction)

\* manifest.py lines 86-105: the agent-level document as rewritten
StampDAManifest(da_json, name, description, instruction, declarative_agent_id) ==
    LET d1 == Put(da_json, "id", declarative_agent_id)
        d2 == Put(d1, "name", name)
        d3 == Put(d2, "description", description)
    IN  Put(d3, "instructions", instruction)

\* CopyTemplate copying only the template files the folder does not hold
\* yet, so that a file of an earlier run is merged with, not overwritten.
CopyTemplateMissingOnly(files, tmpl) ==
    [f \in (DOMAIN files) \cup (DOMAIN tmpl.files) |->
        IF f \in DOMAIN files THEN files[f] ELSE tmpl.files[f]]

\* manifest.py lines 50-52: every template file is copied over the folder's
\* file of the same name; other files of the folder stay.
CopyTemplate(files, tmpl) ==
    [f \in (DOMAIN files) \cup (DOMAIN tmpl.files) |->
        IF f \in DOMAIN tmpl.files THEN tmpl.files[f] ELSE files[f]]

\* create_raw_manifest unpacking existing_ids into manifest_id only and
\* drawing the agent id afresh.
create_raw_manifest_fresh_agent_id(folder, tmpl, name, description, instruction, existing_ids, n) ==
    LET made == [exists |-> TRUE, files |-> folder.files]
    IN  IF ~tmpl.exists
        THEN [raw |-> made, outcome |-> "FileNotFoundError: Template folder not found",
              uuids |-> n, ids |-> None]
        ELSE
          LET copied == CopyTemplate(made.files, tmpl)
              reuse == existing_ids # None
              manifest_id == IF reuse THEN existing_ids[1] ELSE Uuid4(n + 1)
              declarative_agent_id == IF reuse THEN Uuid4(n + 1) ELSE Uuid4(n + 2)
              app == StampAppManifest(copied[APP_MANIFEST_FILENAME], name, description,
                                      manifest_id, declarative_agent_id)
              files1 == [copied EXCEPT ![APP_MANIFEST_FILENAME] = app]
              da == StampDAManifest(files1[MANIFEST_FILENAME], name, description,
                                    instruction, declarative_agent_id)
              files2 == [files1 EXCEPT ![MANIFEST_FILENAME] = da]
          IN  [raw |-> [exists |-> TRUE, files |-> files2], outcome |-> "ok",
               uuids |-> IF reuse THEN n + 1 ELSE n + 2,
               ids |-> <<manifest_id, declarative_agent_id>>]

\* create_raw_manifest deriving both ids from the agent name (uuid5 in place
\* of uuid4): the same name gets the same pair every time.
create_raw_manifest_ids_from_name(folder, tmpl, name, description, instruction, existing_ids, n) ==
    LET made == [exists |-> TRUE, files |-> folder.files]
    IN  IF ~tmpl.exists
        THEN [raw |-> made, outcome |-> "FileNotFoundError: Template folder not found",
              uuids |-> n, ids |-> None]
        ELSE
          LET copied == CopyTemplate(made.files, tmpl)
              reuse == existing_ids # None
              manifest_id == IF reuse THEN existing_ids[1] ELSE "uuid5-app-" \o name
              declarative_agent_id == IF reuse THEN existing_ids[2]
                                      ELSE "uuid5-agent-" \o name
              app == StampAppManifest(copied[APP_MANIFEST_FILENAME], name, description,
                                      manifest_id, declarative_agent_id)
              files1 == [copied EXCEPT ![APP_MANIFEST_FILENAME] = app]
              da == StampDAManifest(files1[MANIFEST_FILENAME], name, description,
                                    instruction, declarative_agent_id)
              files2 == [files1 EXCEPT ![MANIFEST_FILENAME] = da]
          IN  [raw |-> [exists |-> TRUE, files |-> files2], outcome |-> "ok",
               uuids |-> IF reuse THEN n ELSE n + 2,
               ids |-> <<manifest_id, declarative_agent_id>>]

\* create_raw_manifest clearing the folder (shutil.rmtree) before line 44
\* makes it, so that every run starts from an empty folder.
create_raw_manifest_fresh_folder(folder, tmpl, name, description, instruction, existing_ids, n) ==
    LET made == [exists |-> TRUE, files |-> <<>>]
    IN  IF ~tmpl.exists
        THEN [raw |-> made, outcome |-> "FileNotFoundError: Template folder not found",
              uuids |-> n, ids |-> None]
        ELSE
          LET copied == CopyTemplate(made.files, tmpl)
              reuse == existing_ids # None
              manifest_id == IF reuse THEN existing_ids[1] ELSE Uuid4(n + 1)
              declarative_agent_id == IF reuse THEN existing_ids[2] ELSE Uuid4(n + 2)
              app == StampAppManifest(copied[APP_MANIFEST_FILENAME], name, description,
                                      manifest_id, declarative_agent_id)
              files1 == [copied EXCEPT ![APP_MANIFEST_FILENAME] = app]
              da == StampDAManifest(files1[MANIFEST_FILENAME], name, description,
                                    instruction, declarative_agent_id)
              files2 == [files1 EXCEPT ![MANIFEST_FILENAME] = da]
          IN  [raw |-> [exists |-> TRUE, files |-> files2], outcome |-> "ok",
               uuids |-> IF reuse THEN n ELSE n + 2,
               ids |-> <<manifest_id, declarative_agent_id>>]

\* manifest.py lines 42-111.  n is the number of uuid4 draws made before the
\* call.  The result holds the folder afterwards, the outcome, the draws and
\* the locals (manifest_id, declarative_agent_id) of lines 55-61.
create_raw_manifest(folder, tmpl, name, description, instruction, existing_ids, n) ==
    LET made == [exists |-> TRUE, files |-> folder.files]
    IN  IF ~tmpl.exists
        THEN [raw |-> made, outcome |-> "FileNotFoundError: Template folder not found",
              uuids |-> n, ids |-> None]
        ELSE
          LET copied == CopyTemplate(made.files, tmpl)
              reuse == existing_ids # None
              manifest_id == IF reuse THEN existing_ids[1] ELSE Uuid4(n + 1)
              declarative_agent_id == IF reuse THEN existing_ids[2] ELSE Uuid4(n + 2)
              app == StampAppManifest(copied[APP_MANIFEST_FILENAME], name, description,
                                      manifest_id, declarative_agent_id)
              files1 == [copied EXCEPT ![APP_MANIFEST_FILENAME] = app]
              da == StampDAManifest(files1[MANIFEST_FILENAME], name, description,
                                    instruction, declarative_agent_id)
              files2 == [files1 EXCEPT ![MANIFEST_FILENAME] = da]
          IN  [raw |-> [exists |-> TRUE, files |-> files2], outcome |-> "ok",
               uuids |-> IF reuse THEN n ELSE n + 2,
               ids |-> <<manifest_id, declarative_agent_id>>]

-----------------------------------------------------------------------------
(* revise_da_manifest: the classification of the socket's records *)

NameIs(cap, n) == Has(cap, FIELD_NAME) /\ cap[FIELD_NAME] = n

\* manifest.py lines 179-188: one item of items_by_sharepoint_ids
CleanItem(item) ==
    LET cleaned_item == Without(item, {FIELD_TYPE, FIELD_NAME})
        r1 == IF Has(cleaned_item, FIELD_X_PART_ID)
              THEN Put(Del(cleaned_item, FIELD_X_PART_ID), FIELD_PART_ID,
                       cleaned_item[FIELD_X_PART_ID])
              ELSE cleaned_item
    IN  IF Has(r1, FIELD_X_PART_TYPE)
        THEN Put(Del(r1, FIELD_X_PART_TYPE), FIELD_PART_TYPE, r1[FIELD_X_PART_TYPE])
        ELSE r1

\* CleanItems removing type and name from the record itself as well.
CleanItemsAndRecord(cap) ==
    LET stripped == Without(cap, {FIELD_TYPE, FIELD_NAME})
    IN  IF Has(cap, FIELD_ITEMS_BY_SHAREPOINT_IDS)
        THEN Put(stripped, FIELD_ITEMS_BY_SHAREPOINT_IDS,
                 [k \in DOMAIN cap[FIELD_ITEMS_BY_SHAREPOINT_IDS] |->
                     CleanItem(cap[FIELD_ITEMS_BY_SHAREPOINT_IDS][k])])
        ELSE stripped

\* manifest.py lines 174-192: the shallow copy with its items cleaned
CleanItems(cap) ==
    IF Has(cap, FIELD_ITEMS_BY_SHAREPOINT_IDS)
    THEN Put(cap, FIELD_ITEMS_BY_SHAREPOINT_IDS,
             [k \in DOMAIN cap[FIELD_ITEMS_BY_SHAREPOINT_IDS] |->
                 CleanItem(cap[FIELD_ITEMS_BY_SHAREPOINT_IDS][k])])
    ELSE cap

\* manifest.py line 180: item.items() raises on an item that is no object
ItemsRaise(cap) ==
    /\ Has(cap, FIELD_ITEMS_BY_SHAREPOINT_IDS)
    /\ \E k \in DOMAIN cap[FIELD_ITEMS_BY_SHAREPOINT_IDS] :
          ~IsObject(cap[FIELD_ITEMS_BY_SHAREPOINT_IDS][k])

\* AddDefaultFields assigning every default without the membership test.
AddDefaultFieldsOverwrite(cleaned_cap) ==
    [f \in (DOMAIN cleaned_cap) \cup (DOMAIN CAPABILITY_DEFAULT_FIELDS) |->
        IF f \in DOMAIN CAPABILITY_DEFAULT_FIELDS
        THEN CAPABILITY_DEFAULT_FIELDS[f] ELSE cleaned_cap[f]]

\* manifest.py lines 194-196
AddDefaultFields(cleaned_cap) ==
    [f \in (DOMAIN cleaned_cap) \cup (DOMAIN CAPABILITY_DEFAULT_FIELDS) |->
        IF f \in DOMAIN cleaned_cap THEN cleaned_cap[f] ELSE CAPABILITY_DEFAULT_FIELDS[f]]

Routed(bucket, cap) == [error |-> "", bucket |-> bucket, cap |-> cap]
RouteRaises(cap) == [error |-> "AttributeError", bucket |-> "none", cap |-> cap]

\* RouteCap with the Meetings branch appending to the experimental list.
RouteCapMeetingsExperimental(cap) ==
    IF ~IsObject(cap) THEN RouteRaises(cap)
    ELSE IF NameIs(cap, CAPABILITY_ONEDRIVE_SHAREPOINT)
         THEN IF ItemsRaise(cap) THEN RouteRaises(cap)
              ELSE Routed("regular", AddDefaultFields(CleanItems(cap)))
    ELSE IF NameIs(cap, CAPABILITY_WEBSEARCH) THEN Routed("experimental", cap)
    ELSE IF NameIs(cap, CAPABILITY_EMAIL) THEN Routed("regular", cap)
    ELSE IF NameIs(cap, CAPABILITY_MEETINGS) THEN Routed("experimental", cap)
    ELSE IF NameIs(cap, CAPABILITY_PAGES) THEN Routed("experimental", cap)
    ELSE Routed("regular", cap)

\* RouteCap with the default fields added in the final branch as well.
RouteCapDefaultsForOthers(cap) ==
    IF ~IsObject(cap) THEN RouteRaises(cap)
    ELSE IF NameIs(cap, CAPABILITY_ONEDRIVE_SHAREPOINT)
         THEN IF ItemsRaise(cap) THEN RouteRaises(cap)
              ELSE Routed("regular", AddDefaultFields(CleanItems(cap)))
    ELSE IF NameIs(cap, CAPABILITY_WEBSEARCH) THEN Routed("experimental", cap)
    ELSE IF NameIs(cap, CAPABILITY_EMAIL) THEN Routed("regular", cap)
    ELSE IF NameIs(cap, CAPABILITY_MEETINGS) THEN Routed("regular", cap)
    ELSE IF NameIs(cap, CAPABILITY_PAGES) THEN Routed("experimental", cap)
    ELSE Routed("regular", AddDefaultFields(cap))

\* manifest.py lines 170-217: the body of the loop, for one socket element
RouteCap(cap) ==
    IF ~IsObject(cap) THEN RouteRaises(cap)
    ELSE IF NameIs(cap, CAPABILITY_ONEDRIVE_SHAREPOINT)
         THEN IF ItemsRaise(cap) THEN RouteRaises(cap)
              ELSE Routed("regular", AddDefaultFields(CleanItems(cap)))
    ELSE IF NameIs(cap, CAPABILITY_WEBSEARCH) THEN Routed("experimental", cap)
    ELSE IF NameIs(cap, CAPABILITY_EMAIL) THEN Routed("regular", cap)
    ELSE IF NameIs(cap, CAPABILITY_MEETINGS) THEN Routed("regular", cap)
    ELSE IF NameIs(cap, CAPABILITY_PAGES) THEN Routed("experimental", cap)
    ELSE Routed("regular", cap)

NoBuckets == [regular |-> <<>>, experimental |-> <<>>]

\* ClassifyFrom inserting each record at the front of its list.
RECURSIVE ClassifyFromPrepend(_, _)
ClassifyFromPrepend(caps, acc) ==
    IF Len(caps) = 0 THEN acc
    ELSE LET r == RouteCap(Head(caps))
         IN  IF r.error # "" THEN [acc EXCEPT !.error = r.error]
             ELSE IF r.bucket = "regular"
                  THEN ClassifyFromPrepend(Tail(caps),
                                    [acc EXCEPT !.regular = <<r.cap>> \o @])
                  ELSE ClassifyFromPrepend(Tail(caps),
                                    [acc EXCEPT !.experimental = <<r.cap>> \o @])

\* manifest.py lines 166-217: the loop over capabilities_list
RECURSIVE ClassifyFrom(_, _)
ClassifyFrom(caps, acc) ==
    IF Len(caps) = 0 THEN acc
    ELSE LET r == RouteCap(Head(caps))
         IN  IF r.error # "" THEN [acc EXCEPT !.error = r.error]
             ELSE IF r.bucket = "regular"
                  THEN ClassifyFrom(Tail(caps),
                                    [acc EXCEPT !.regular = Append(@, r.cap)])
                  ELSE ClassifyFrom(Tail(caps),
                                    [acc EXCEPT !.experimental = Append(@, r.cap)])

Classify(caps) ==
    ClassifyFrom(caps, [error |-> "", regular |-> <<>>, experimental |-> <<>>])

\* manifest.py lines 152-154
DropCapabilities(manifest) ==
    IF Has(manifest, FIELD_CAPABILITIES) THEN Del(manifest, FIELD_CAPABILITIES)
    ELSE manifest

\* SetBehaviorOverrides keeping a value the document already carries.
SetBehaviorOverridesIfAbsent(manifest) ==
    IF Has(manifest, FIELD_BEHAVIOR_OVERRIDES) THEN manifest
    ELSE Put(manifest, FIELD_BEHAVIOR_OVERRIDES, FIELD_BEHAVIOR_OVERRIDES_VALUE)

\* manifest.py line 160
SetForceFluxV3(manifest) == Put(manifest, FIELD_FORCE_FLUXV3, JTrue)

\* manifest.py line 163
SetBehaviorOverrides(manifest) ==
    Put(manifest, FIELD_BEHAVIOR_OVERRIDES, FIELD_BEHAVIOR_OVERRIDES_VALUE)

\* SetCapabilities extending the experimental list the loaded document
\* carries instead of assigning the new one.
SetCapabilitiesExtendingExperimental(manifest, b) ==
    LET m == Put(manifest, FIELD_CAPABILITIES, b.regular)
        prior == IF Has(manifest, FIELD_EXPERIMENTAL_CAPABILITIES)
                 THEN manifest[FIELD_EXPERIMENTAL_CAPABILITIES] ELSE <<>>
    IN  IF Len(b.experimental) > 0
        THEN Put(m, FIELD_EXPERIMENTAL_CAPABILITIES, prior \o b.experimental)
        ELSE m

\* manifest.py lines 219-224
SetCapabilities(manifest, b) ==
    LET m == Put(manifest, FIELD_CAPABILITIES, b.regular)
    IN  IF Len(b.experimental) > 0
        THEN Put(m, FIELD_EXPERIMENTAL_CAPABILITIES, b.experimental)
        ELSE m

\* ReviseDocument keeping the loaded `capabilities` and extending it with the
\* regular list.
ReviseDocumentAdditive(manifest, sock) ==
    LET prior == IF Has(manifest, FIELD_CAPABILITIES)
                 THEN manifest[FIELD_CAPABILITIES] ELSE <<>>
        m1 == DropCapabilities(manifest)
    IN  IF ~sock.parses
        THEN [error |-> "JSONDecodeError", manifest |-> m1, buckets |-> NoBuckets]
        ELSE LET m3 == SetBehaviorOverrides(SetForceFluxV3(m1))
                 b == Classify(sock.caps)
             IN  IF b.error # ""
                 THEN [error |-> b.error, manifest |-> m3, buckets |-> NoBuckets]
                 ELSE [error |-> "",
                       manifest |-> SetCapabilities(m3, [b EXCEPT !.regular = prior \o @]),
                       buckets |-> [regular |-> b.regular,
                                    experimental |-> b.experimental]]

\* manifest.py lines 152-224: the rewrite of the loaded document, in memory
ReviseDocument(manifest, sock) ==
    LET m1 == DropCapabilities(manifest)
    IN  IF ~sock.parses
        THEN [error |-> "JSONDecodeError", manifest |-> m1, buckets |-> NoBuckets]
        ELSE LET m3 == SetBehaviorOverrides(SetForceFluxV3(m1))
                 b == Classify(sock.caps)
             IN  IF b.error # ""
                 THEN [error |-> b.error, manifest |-> m3, buckets |-> NoBuckets]
                 ELSE [error |-> "", manifest |-> SetCapabilities(m3, b),
                       buckets |-> [regular |-> b.regular,
                                    experimental |-> b.experimental]]

\* revise_da_manifest with the document written back before the exception
\* leaves the function.
revise_da_manifest_write_on_raise(sock, folder) ==
    IF ~sock.exists
    THEN [raw |-> folder, outcome |-> "FileNotFoundError: Socket file not found",
          buckets |-> NoBuckets, manifest |-> None]
    ELSE IF MANIFEST_FILENAME \notin DOMAIN folder.files
    THEN [raw |-> folder, outcome |-> "FileNotFoundError: Manifest file not found",
          buckets |-> NoBuckets, manifest |-> None]
    ELSE LET doc == ReviseDocument(folder.files[MANIFEST_FILENAME], sock)
         IN  [raw |-> [folder EXCEPT !.files[MANIFEST_FILENAME] = doc.manifest],
              outcome |-> IF doc.error # "" THEN doc.error ELSE "ok",
              buckets |-> doc.buckets, manifest |-> doc.manifest]

\* revise_da_manifest locating, loading and writing manifest.json instead of
\* declarativeAgent_0.json.
revise_da_manifest_app_document(sock, folder) ==
    IF ~sock.exists
    THEN [raw |-> folder, outcome |-> "FileNotFoundError: Socket file not found",
          buckets |-> NoBuckets, manifest |-> None]
    ELSE IF APP_MANIFEST_FILENAME \notin DOMAIN folder.files
    THEN [raw |-> folder, outcome |-> "FileNotFoundError: Manifest file not found",
          buckets |-> NoBuckets, manifest |-> None]
    ELSE LET doc == ReviseDocument(folder.files[APP_MANIFEST_FILENAME], sock)
         IN  IF doc.error # ""
             THEN [raw |-> folder, outcome |-> doc.error, buckets |-> NoBuckets,
                   manifest |-> None]
             ELSE [raw |-> [folder EXCEPT !.files[APP_MANIFEST_FILENAME] = doc.manifest],
                   outcome |-> "ok", buckets |-> doc.buckets, manifest |-> doc.manifest]

\* revise_da_manifest rebuilding the document from the template's
\* declarativeAgent_0.json instead of loading the folder's.
revise_da_manifest_from_template(sock, folder) ==
    IF ~sock.exists
    THEN [raw |-> folder, outcome |-> "FileNotFoundError: Socket file not found",
          buckets |-> NoBuckets, manifest |-> None]
    ELSE IF MANIFEST_FILENAME \notin DOMAIN folder.files
    THEN [raw |-> folder, outcome |-> "FileNotFoundError: Manifest file not found",
          buckets |-> NoBuckets, manifest |-> None]
    ELSE LET doc == ReviseDocument(TemplateDAManifest, sock)
         IN  IF doc.error # ""
             THEN [raw |-> folder, outcome |-> doc.error, buckets |-> NoBuckets,
                   manifest |-> None]
             ELSE [raw |-> [folder EXCEPT !.files[MANIFEST_FILENAME] = doc.manifest],
                   outcome |-> "ok", buckets |-> doc.buckets, manifest |-> doc.manifest]

\* manifest.py lines 134-232.  The result holds the folder afterwards, the
\* outcome ("ok" or the exception raised), the two lists the loop built and
\* the dictionary returned at line 232.
revise_da_manifest(sock, folder) ==
    IF ~sock.exists
    THEN [raw |-> folder, outcome |-> "FileNotFoundError: Socket file not found",
          buckets |-> NoBuckets, manifest |-> None]
    ELSE IF MANIFEST_FILENAME \notin DOMAIN folder.files
    THEN [raw |-> folder, outcome |-> "FileNotFoundError: Manifest file not found",
          buckets |-> NoBuckets, manifest |-> None]
    ELSE LET doc == ReviseDocument(folder.files[MANIFEST_FILENAME], sock)
         IN  IF doc.error # ""
             THEN [raw |-> folder, outcome |-> doc.error, buckets |-> NoBuckets,
                   manifest |-> None]
             ELSE [raw |-> [folder EXCEPT !.files[MANIFEST_FILENAME] = doc.manifest],
                   outcome |-> "ok", buckets |-> doc.buckets, manifest |-> doc.manifest]

-----------------------------------------------------------------------------
(* packaging.py *)

NESTED_FILE == "assets/icons/icon.png"

\* The directory entries shutil.make_archive writes for the folders above a
\* file; files at the top of the folder have none.
ParentDirs(path) == IF path = NESTED_FILE THEN {"assets/", "assets/icons/"} ELSE {}

DirsOf(files) == UNION { ParentDirs(f) : f \in DOMAIN files }

\* packaging.py line 49: shutil.make_archive writes the archive anew
MakeArchive(folder, archive) ==
    [archive EXCEPT !.exists = TRUE, !.entries = folder.files,
                    !.dirs = DirsOf(folder.files)]

\* packaging.py lines 44-45
Unlink(archive) ==
    IF archive.exists
    THEN [archive EXCEPT !.exists = FALSE, !.entries = <<>>, !.dirs = {}]
    ELSE archive

\* zip_manifest opening the existing archive for appending: no unlink, and
\* the old entries stay beside the new ones.
zip_manifest_appending(folder, archive) ==
    IF ~folder.exists
    THEN [zipped |-> [archive EXCEPT !.folder = TRUE],
          outcome |-> "FileNotFoundError: Manifest folder not found"]
    ELSE [zipped |-> [folder |-> TRUE, exists |-> TRUE,
                      entries |-> folder.files @@ archive.entries,
                      dirs |-> DirsOf(folder.files) \cup archive.dirs],
          outcome |-> "ok"]

\* zip_manifest removing the existing archive before it looks for the folder.
zip_manifest_unlink_first(folder, archive) ==
    IF ~folder.exists
    THEN [zipped |-> Unlink([archive EXCEPT !.folder = TRUE]),
          outcome |-> "FileNotFoundError: Manifest folder not found"]
    ELSE [zipped |-> MakeArchive(folder, Unlink([archive EXCEPT !.folder = TRUE])),
          outcome |-> "ok"]

\* zip_manifest returning the archive that is already there instead of
\* replacing it.
zip_manifest_keep_existing(folder, archive) ==
    LET made == [archive EXCEPT !.folder = TRUE]
    IN  IF ~folder.exists
        THEN [zipped |-> made,
              outcome |-> "FileNotFoundError: Manifest folder not found"]
        ELSE IF made.exists THEN [zipped |-> made, outcome |-> "ok"]
        ELSE [zipped |-> MakeArchive(folder, made), outcome |-> "ok"]

\* packaging.py lines 29-52.  The result holds zipped_manifests/ afterwards
\* and the outcome.
zip_manifest(folder, archive) ==
    LET made == [archive EXCEPT !.folder = TRUE]
    IN  IF ~folder.exists
        THEN [zipped |-> made,
              outcome |-> "FileNotFoundError: Manifest folder not found"]
        ELSE [zipped |-> MakeArchive(folder, Unlink(made)), outcome |-> "ok"]

\* The (manifest id, declarative-agent id) pair of a manifest.json document,
\* None when an id field or one of its containers is absent.
IdsOf(doc) ==
    IF /\ Has(doc, "id")
       /\ Has(doc, "copilotAgents")
       /\ Has(doc["copilotAgents"], "declarativeAgents")
       /\ Len(doc["copilotAgents"]["declarativeAgents"]) > 0
       /\ Has(doc["copilotAgents"]["declarativeAgents"][1], "id")
    THEN << doc["id"], doc["copilotAgents"]["declarativeAgents"][1]["id"] >>
    ELSE None

Found(ids) == [ids |-> ids, outcome |-> "ok"]
NotFound == [ids |-> None, outcome |-> "ok"]

\* extract_ids_from_zip catching the JSON error only: the lookup of an absent
\* id field or container raises KeyError.
extract_ids_from_zip_key_error(archive) ==
    IF ~archive.exists THEN NotFound
    ELSE IF APP_MANIFEST_FILENAME \notin DOMAIN archive.entries THEN NotFound
    ELSE IF ~IsJson(archive.entries[APP_MANIFEST_FILENAME]) THEN NotFound
    ELSE LET ids == IdsOf(archive.entries[APP_MANIFEST_FILENAME])
         IN  IF ids = None THEN [ids |-> None, outcome |-> "KeyError"]
             ELSE Found(ids)

\* extract_ids_from_zip(zip_path): the archive is opened, manifest.json is
\* read from it and parsed, and the two ids are looked up; every failure
\* gives None.
extract_ids_from_zip(archive) ==
    IF ~archive.exists THEN NotFound
    ELSE IF APP_MANIFEST_FILENAME \notin DOMAIN archive.entries THEN NotFound
    ELSE IF ~IsJson(archive.entries[APP_MANIFEST_FILENAME]) THEN NotFound
    ELSE LET ids == IdsOf(archive.entries[APP_MANIFEST_FILENAME])
         IN  IF ids = None THEN NotFound ELSE Found(ids)

-----------------------------------------------------------------------------
(* core.py *)

\* core.py lines 25-33
validate_socket_file(sock) == sock.exists

\* How `teamsapp install` can behave: it exits 0, it exits non-zero, the
\* command is not on the PATH, or starting it fails otherwise.
Tools == {"installs", "fails", "absent", "breaks"}

\* sideload_to_teams without the except clauses: a command that cannot be
\* started raises out of the function.
sideload_to_teams_uncaught(archive, tool) ==
    IF ~archive.exists THEN [ret |-> FALSE, outcome |-> "ok"]
    ELSE IF tool = "installs" THEN [ret |-> TRUE, outcome |-> "ok"]
    ELSE IF tool = "fails" THEN [ret |-> FALSE, outcome |-> "ok"]
    ELSE IF tool = "absent"
         THEN [ret |-> FALSE, outcome |-> "FileNotFoundError"]
    ELSE [ret |-> FALSE, outcome |-> "OSError"]

\* core.py lines 46-83
sideload_to_teams(archive, tool) ==
    IF ~archive.exists THEN [ret |-> FALSE, outcome |-> "ok"]
    ELSE IF tool = "installs" THEN [ret |-> TRUE, outcome |-> "ok"]
    ELSE IF tool = "fails" THEN [ret |-> FALSE, outcome |-> "ok"]
    ELSE [ret |-> FALSE, outcome |-> "ok"]

-----------------------------------------------------------------------------
(* Socket documents *)

SeqsUpTo(S, n) == UNION { [1..k -> S] : k \in 0..n }

SocketMissing == [exists |-> FALSE, parses |-> FALSE, caps |-> <<>>]
SocketNotJson == [exists |-> TRUE, parses |-> FALSE, caps |-> <<>>]
SocketOf(caps) == [exists |-> TRUE, parses |-> TRUE, caps |-> caps]

EmailCap == (FIELD_NAME :> CAPABILITY_EMAIL) @@ (FIELD_ITEMS_BY_ID :> <<>>)
MeetingsCap == (FIELD_NAME :> CAPABILITY_MEETINGS) @@ (FIELD_ITEMS_BY_ID :> <<>>)
WebSearchCap == (FIELD_NAME :> CAPABILITY_WEBSEARCH) @@ ("sites" :> <<>>)
PagesCap == (FIELD_NAME :> CAPABILITY_PAGES)
CodeInterpreterCap == (FIELD_NAME :> CAPABILITY_CODE_INTERPRETER)
LowerCaseCap == (FIELD_NAME :> "websearch") @@ ("sites" :> <<>>)
NamelessCap == (FIELD_ITEMS_BY_ID :> <<>>)

\* The keys an item is drawn over, each with one value of its own.
ItemValue ==
    (FIELD_TYPE :> "File") @@ (FIELD_NAME :> "x") @@
    (FIELD_X_PART_ID :> "x-part-id-1") @@ (FIELD_PART_ID :> "part-id-0") @@
    (FIELD_X_PART_TYPE :> "x-part-type-1") @@ (FIELD_PART_TYPE :> "part-type-0") @@
    ("site_id" :> "s")

ItemOver(keys) == [k \in keys |-> ItemValue[k]]

ItemKeySets ==
    (SUBSET {FIELD_TYPE, FIELD_X_PART_ID, FIELD_PART_ID, "site_id"}) \cup
    (SUBSET {FIELD_NAME, FIELD_X_PART_TYPE, FIELD_PART_TYPE, "site_id"})

Items == { ItemOver(keys) : keys \in ItemKeySets } \cup {NonObject}

OneDriveCap == (FIELD_NAME :> CAPABILITY_ONEDRIVE_SHAREPOINT)

OneDriveWithItems(items) == Put(OneDriveCap, FIELD_ITEMS_BY_SHAREPOINT_IDS, items)

FileItem == ItemOver({"site_id", FIELD_TYPE, FIELD_NAME})

\* OneDrive records that set none, one or both of the default fields.
PresetOver(keys, url, botspeak) ==
    [k \in keys |-> IF k = FIELD_ITEMS_BY_URL THEN url ELSE botspeak]

OneDrivePreset ==
    { PresetOver(keys, url, botspeak) @@ base :
        keys \in SUBSET {FIELD_ITEMS_BY_URL, FIELD_X_FORCE_BOTSPEAK},
        url \in {<<>>, <<"https://contoso.example/a">>},
        botspeak \in {JFalse, JTrue, JNull},
        base \in {OneDriveCap, OneDriveWithItems(<<FileItem>>)} }

\* Socket elements of the file-system specification
FsCaps == {EmailCap, WebSearchCap, OneDriveWithItems(<<FileItem>>)}

FsSockets ==
    { SocketOf(c) : c \in SeqsUpTo(FsCaps, MaxCaps) } \cup
    { SocketOf(<<NonObject>>), SocketOf(<<EmailCap, NonObject>>),
      SocketNotJson, SocketMissing }

\* Socket elements of the revision specification
KindCaps ==
    {EmailCap, MeetingsCap, WebSearchCap, PagesCap, CodeInterpreterCap,
     LowerCaseCap, NamelessCap, NonObject, OneDriveCap, OneDriveWithItems(<<>>)}

ReviseSockets ==
    { SocketOf(c) : c \in SeqsUpTo(KindCaps, MaxReviseCaps) } \cup
    { SocketOf(<<OneDriveWithItems(items)>>) : items \in SeqsUpTo(Items, MaxItems) } \cup
    { SocketOf(<<od>>) : od \in OneDrivePreset } \cup
    { SocketOf(<<od, EmailCap>>) : od \in OneDrivePreset }

-----------------------------------------------------------------------------
(* Manifest folders as an operator's hands can leave them *)

DefaultTemplate == [exists |-> TRUE, files |-> TemplateFiles(TemplateDAManifest)]

FolderWith(files) == [exists |-> TRUE, files |-> files]

\* The files create_raw_manifest leaves for the first agent materialized
BaseFiles ==
    create_raw_manifest(NoFolder, DefaultTemplate, AgentName, "-", "-", None, 0).raw.files

BaseApp == BaseFiles[APP_MANIFEST_FILENAME]

\* manifest.json as materialized, not JSON, and with an id field or one of
\* its containers removed
AppDocuments ==
    { BaseApp,
      NotJson,
      Del(BaseApp, "id"),
      Del(BaseApp, "copilotAgents"),
      [BaseApp EXCEPT !["copilotAgents"] = Del(@, "declarativeAgents")],
      [BaseApp EXCEPT !["copilotAgents"]["declarativeAgents"] = <<>>],
      [BaseApp EXCEPT !["copilotAgents"]["declarativeAgents"][1] = Del(@, "id")] }

RawFolders ==
    { NoFolder, FolderWith(<<>>) } \cup
    { FolderWith(Put(BaseFiles, APP_MANIFEST_FILENAME, d)) : d \in AppDocuments } \cup
    { FolderWith(Del(BaseFiles, APP_MANIFEST_FILENAME)),
      FolderWith(Del(BaseFiles, MANIFEST_FILENAME)),
      FolderWith(Put(BaseFiles, NESTED_FILE, "icon data")),
      FolderWith(Put(Del(BaseFiles, COLOR_ICON), NESTED_FILE, "icon data")),
      FolderWith(("file1.txt" :> "version 1")),
      FolderWith(("file1.txt" :> "version 2") @@ ("file2.txt" :> "new file")) }

PackageSockets == {SocketMissing, SocketOf(<<EmailCap>>), SocketOf(<<EmailCap, WebSearchCap>>)}

-----------------------------------------------------------------------------
(* The state machine: one agent name, its socket document, its manifest   *)
(* folder and the template folder.                                         *)

Done(op, outcome) == [op |-> op, outcome |-> outcome]

\* What a call hands back: a path, a bool, an id pair, a document, None; or
\* nothing, when it raised.
RetPath(p) == [path |-> p]
RetBool(b) == [bool |-> b]
RetIds(ids) == [ids |-> ids]
RetManifest(doc) == [manifest |-> doc]
RetNone == [none |-> "None"]
Raised == [raised |-> "exception"]

NeverCreated == [existing_ids |-> None, ids |-> None]
NoArchive == [folder |-> FALSE, exists |-> FALSE, entries |-> <<>>, dirs |-> {}]
Idle == [pc |-> "idle", skip_sideload |-> FALSE, stages |-> <<>>, result |-> "none"]

\* The processes that may call create_raw_manifest at the same time, and the
\* activation of one that has not called it.
Procs == {"first", "second"}
NotEntered ==
    [pc |-> "idle", existing_ids |-> None, copied |-> 0, ids |-> None,
     doc |-> <<>>, met |-> "idle", outcome |-> "none"]
NoRuns == [p \in Procs |-> NotEntered]

\* The part of the state no call has touched yet.
Untouched ==
    /\ uuids = 0
    /\ last = Done("none", "ok")
    /\ buckets = NoBuckets
    /\ created = NeverCreated
    /\ issued = {}
    /\ deploy = Idle
    /\ ret = RetNone
    /\ trip = "none"
    /\ runs = NoRuns

Init ==
    /\ template \in TemplateFolders
    /\ socket = SocketMissing
    /\ raw = NoFolder
    /\ agent = AgentName
    /\ zipped = NoArchive
    /\ teamsapp = "installs"
    /\ Untouched

\* The operator saves, replaces or removes sockets/<agent>.json.
WriteSocket ==
    \E s \in FsSockets :
        /\ s # socket
        /\ socket' = s
        /\ last' = Done("write_socket", "ok")
        /\ buckets' = NoBuckets
        /\ ret' = RetNone
        /\ UNCHANGED <<template, raw, uuids, agent, created, issued, zipped,
                       teamsapp, runs, deploy, trip>>

\* One create_raw_manifest(agent, description, instruction, existing_ids) call
CreateCall(description, instruction, existing_ids) ==
    /\ existing_ids = None => uuids + 2 <= 2 * MaxCreates
    /\ LET r == create_raw_manifest(raw, template, agent, description, instruction,
                                    existing_ids, uuids)
       IN  /\ raw' = r.raw
           /\ uuids' = r.uuids
           /\ last' = Done("create_raw_manifest", r.outcome)
           /\ created' = [existing_ids |-> existing_ids, ids |-> r.ids]
           /\ issued' = IF r.outcome = "ok" /\ existing_ids = None
                        THEN issued \cup {r.ids} ELSE issued
           /\ ret' = IF r.outcome = "ok" THEN RetPath("raw_manifests/" \o agent)
                     ELSE Raised
    /\ buckets' = NoBuckets
    /\ UNCHANGED <<template, socket, agent, zipped, teamsapp, runs>>

\* One revise_da_manifest(agent) call
ReviseCall ==
    LET r == revise_da_manifest(socket, raw)
    IN  /\ raw' = r.raw
        /\ last' = Done("revise_da_manifest", r.outcome)
        /\ buckets' = r.buckets
        /\ ret' = IF r.outcome = "ok" THEN RetManifest(r.manifest) ELSE Raised
        /\ UNCHANGED <<template, socket, uuids, agent, created, issued, zipped,
                       teamsapp, runs>>

\* One zip_manifest(agent) call
ZipCall ==
    LET r == zip_manifest(raw, zipped)
    IN  /\ zipped' = r.zipped
        /\ last' = Done("zip_manifest", r.outcome)
        /\ ret' = IF r.outcome = "ok"
                  THEN RetPath("zipped_manifests/" \o agent \o ".zip") ELSE Raised
        /\ buckets' = NoBuckets
        /\ UNCHANGED <<template, socket, raw, uuids, agent, created, issued, teamsapp, runs>>

\* One extract_ids_from_zip(zipped_manifests/<agent>.zip) call
ExtractCall ==
    LET r == extract_ids_from_zip(zipped)
    IN  /\ last' = Done("extract_ids_from_zip", r.outcome)
        /\ ret' = IF r.outcome # "ok" THEN Raised
                  ELSE IF r.ids = None THEN RetNone ELSE RetIds(r.ids)
        /\ buckets' = NoBuckets
        /\ UNCHANGED <<template, socket, raw, uuids, agent, created, issued, zipped,
                       teamsapp, runs>>

\* One sideload_to_teams(zipped_manifests/<agent>.zip) call
SideloadCall ==
    LET r == sideload_to_teams(zipped, teamsapp)
    IN  /\ last' = Done("sideload_to_teams", r.outcome)
        /\ ret' = IF r.outcome = "ok" THEN RetBool(r.ret) ELSE Raised
        /\ buckets' = NoBuckets
        /\ UNCHANGED <<template, socket, raw, uuids, agent, created, issued, zipped,
                       teamsapp, runs>>

ZipManifest == ZipCall /\ UNCHANGED <<deploy, trip>>

ExtractIdsFromZip == ExtractCall /\ UNCHANGED <<deploy, trip>>

CreateRawManifest ==
    \E text \in Texts, existing_ids \in ExistingIds :
        /\ CreateCall(text[1], text[2], existing_ids)
        /\ UNCHANGED <<deploy, trip>>

ReviseDaManifest == ReviseCall /\ UNCHANGED <<deploy, trip>>

Next == WriteSocket \/ CreateRawManifest \/ ReviseDaManifest

Spec == Init /\ [][Next]_vars

\* Revision alone: every socket document of ReviseSockets against a freshly
\* materialized folder.
Materialized(tmpl) ==
    create_raw_manifest(NoFolder, tmpl, AgentName, "-", "-", None, 0)

InitRevise ==
    /\ template \in { t \in TemplateFolders : t.exists }
    /\ socket \in ReviseSockets
    /\ raw = Materialized(template).raw
    /\ uuids = Materialized(template).uuids
    /\ last = Done("create_raw_manifest", "ok")
    /\ buckets = NoBuckets
    /\ agent = AgentName
    /\ created = [existing_ids |-> None, ids |-> Materialized(template).ids]
    /\ issued = {Materialized(template).ids}
    /\ zipped = NoArchive
    /\ teamsapp = "installs"
    /\ deploy = Idle
    /\ ret = RetPath("raw_manifests/" \o AgentName)
    /\ trip = "none"
    /\ runs = NoRuns

NextRevise == ReviseDaManifest

SpecRevise == InitRevise /\ [][NextRevise]_vars

\* Materialization alone, over agent names on both sides of the short-name
\* limit.
InitCreate ==
    /\ template \in TemplateFolders
    /\ socket = SocketMissing
    /\ raw = NoFolder
    /\ agent \in AgentNames
    /\ zipped = NoArchive
    /\ teamsapp = "installs"
    /\ Untouched

NextCreate == CreateRawManifest

SpecCreate == InitCreate /\ [][NextCreate]_vars

\* The operator rewrites raw_manifests/<agent>/ by hand.
EditFolder ==
    \E f \in RawFolders :
        /\ f # raw
        /\ raw' = f
        /\ last' = Done("edit_folder", "ok")
        /\ buckets' = NoBuckets
        /\ ret' = RetNone
        /\ UNCHANGED <<template, socket, uuids, agent, created, issued, zipped,
                       teamsapp, runs, deploy, trip>>

\* Packaging: hand-made and materialized folders, revised and archived.
InitPackage ==
    /\ template = DefaultTemplate
    /\ socket \in PackageSockets
    /\ raw \in RawFolders
    /\ agent = AgentName
    /\ zipped = NoArchive
    /\ teamsapp = "installs"
    /\ Untouched

NextPackage == EditFolder \/ ReviseDaManifest \/ ZipManifest \/ ExtractIdsFromZip

SpecPackage == InitPackage /\ [][NextPackage]_vars

-----------------------------------------------------------------------------
(* deploy_agent, one action per stage.  Between two stages the operator    *)
(* may rewrite the socket document; library calls of the same user wait    *)
(* for the run to end.                                                     *)

\* core.py lines 116, 125, 134, 143, 157: a stage that failed ends the run
\* with False, one that succeeded hands over to the next
After(stage, ok, next) ==
    IF ok
    THEN [deploy EXCEPT !.pc = next, !.stages = Append(@, stage)]
    ELSE [deploy EXCEPT !.pc = "idle", !.stages = Append(@, stage), !.result = "False"]

\* core.py line 169
Succeeded(stage) ==
    [deploy EXCEPT !.pc = "idle", !.stages = Append(@, stage), !.result = "True"]

\* An exception that leaves deploy_agent
Escaped(stage) ==
    [deploy EXCEPT !.pc = "idle", !.stages = Append(@, stage), !.result = "raised"]

\* core.py lines 86-111: deploy_agent(agent, skip_sideload = skip) is entered
DeployBegin ==
    \E skip \in BOOLEAN :
        /\ deploy.pc = "idle"
        /\ uuids + 2 <= 2 * MaxCreates
        /\ deploy' = [pc |-> "validate", skip_sideload |-> skip, stages |-> <<>>,
                      result |-> "running"]
        /\ last' = Done("deploy_agent", "entered")
        /\ buckets' = NoBuckets
        /\ ret' = RetNone
        /\ UNCHANGED <<template, socket, raw, uuids, agent, created, issued, zipped,
                       teamsapp, runs, trip>>

\* DeployValidate going on to the next stage whatever validate_socket_file
\* returned.
DeployValidateUnchecked ==
    /\ deploy.pc = "validate"
    /\ deploy' = After("validate", TRUE, "create")
    /\ last' = Done("validate_socket_file", "ok")
    /\ ret' = RetBool(validate_socket_file(socket))
    /\ buckets' = NoBuckets
    /\ UNCHANGED <<template, socket, raw, uuids, agent, created, issued, zipped,
                   teamsapp, runs, trip>>

\* core.py lines 113-117
DeployValidate ==
    /\ deploy.pc = "validate"
    /\ deploy' = After("validate", validate_socket_file(socket), "create")
    /\ last' = Done("validate_socket_file", "ok")
    /\ ret' = RetBool(validate_socket_file(socket))
    /\ buckets' = NoBuckets
    /\ UNCHANGED <<template, socket, raw, uuids, agent, created, issued, zipped,
                   teamsapp, runs, trip>>

\* core.py lines 119-126
DeployCreate ==
    /\ deploy.pc = "create"
    /\ CreateCall("-", "-", None)
    /\ deploy' = After("create", last'.outcome = "ok", "revise")
    /\ UNCHANGED trip

\* core.py lines 128-135
DeployRevise ==
    /\ deploy.pc = "revise"
    /\ ReviseCall
    /\ deploy' = After("revise", last'.outcome = "ok", "zip")
    /\ UNCHANGED trip

\* core.py lines 137-144, and lines 147 and 160-169 when skip_sideload is set
DeployZip ==
    /\ deploy.pc = "zip"
    /\ ZipCall
    /\ deploy' = IF last'.outcome = "ok" /\ deploy.skip_sideload
                 THEN Succeeded("zip")
                 ELSE After("zip", last'.outcome = "ok", "sideload")
    /\ UNCHANGED trip

\* core.py lines 146-169
DeploySideload ==
    /\ deploy.pc = "sideload"
    /\ SideloadCall
    /\ deploy' = IF last'.outcome # "ok" THEN Escaped("sideload")
                 ELSE IF ret' = RetBool(TRUE) THEN Succeeded("sideload")
                 ELSE After("sideload", FALSE, "idle")
    /\ UNCHANGED trip

DeployAgent ==
    \/ DeployBegin
    \/ DeployValidate
    \/ DeployCreate
    \/ DeployRevise
    \/ DeployZip
    \/ DeploySideload

\* Library calls made while no deploy_agent run is under way
Materialize == deploy.pc = "idle" /\ CreateRawManifest
Sideload == deploy.pc = "idle" /\ SideloadCall /\ UNCHANGED <<deploy, trip>>
Extract == deploy.pc = "idle" /\ ExtractIdsFromZip

DeploySockets ==
    { SocketMissing, SocketNotJson, SocketOf(<<NonObject>>), SocketOf(<<>>),
      SocketOf(<<EmailCap>>), SocketOf(<<EmailCap, WebSearchCap>>) }

\* The operator saves, replaces or removes the socket document, also while
\* deploy_agent runs.
ReplaceSocket ==
    \E s \in DeploySockets :
        /\ s # socket
        /\ socket' = s
        /\ last' = Done("write_socket", "ok")
        /\ buckets' = NoBuckets
        /\ ret' = RetNone
        /\ UNCHANGED <<template, raw, uuids, agent, created, issued, zipped,
                       teamsapp, runs, deploy, trip>>

InitDeploy ==
    /\ template \in TemplateFolders
    /\ socket \in DeploySockets
    /\ raw = NoFolder
    /\ agent = AgentName
    /\ zipped = NoArchive
    /\ teamsapp \in Tools
    /\ Untouched

NextDeploy == ReplaceSocket \/ DeployAgent \/ Materialize \/ Sideload \/ Extract

SpecDeploy == InitDeploy /\ [][NextDeploy]_vars

-----------------------------------------------------------------------------
(* The round trip: materialize, revise, archive, extract the identity, and *)
(* materialize again with the extracted pair as existing_ids.              *)

\* What an earlier deployment under another identity left behind
OldFolder ==
    create_raw_manifest(NoFolder, DefaultTemplate, AgentName, "-", "-",
                        <<"old-manifest-id", "old-agent-id">>, 0).raw

OldArchive == MakeArchive(OldFolder, [NoArchive EXCEPT !.folder = TRUE])

Then(ok, next) == IF ok THEN next ELSE "failed"

TripMaterialize ==
    /\ trip = "none"
    /\ \E text \in Texts : CreateCall(text[1], text[2], None)
    /\ trip' = Then(last'.outcome = "ok", "materialized")
    /\ UNCHANGED deploy

TripRevise ==
    /\ trip = "materialized"
    /\ ReviseCall
    /\ trip' = Then(last'.outcome = "ok", "revised")
    /\ UNCHANGED deploy

TripArchive ==
    /\ trip = "revised"
    /\ ZipCall
    /\ trip' = Then(last'.outcome = "ok", "archived")
    /\ UNCHANGED deploy

TripExtract ==
    /\ trip = "archived"
    /\ ExtractCall
    /\ trip' = Then(last'.outcome = "ok", "extracted")
    /\ UNCHANGED deploy

\* The caller passes on what extract_ids_from_zip returned.
TripRematerialize ==
    /\ trip = "extracted"
    /\ \E text \in Texts :
          CreateCall(text[1], text[2], IF "ids" \in DOMAIN ret THEN ret.ids ELSE None)
    /\ trip' = Then(last'.outcome = "ok", "rematerialized")
    /\ UNCHANGED deploy

InitRoundTrip ==
    /\ template \in TemplateFolders
    /\ socket \in FsSockets
    /\ raw \in {NoFolder, OldFolder}
    /\ agent = AgentName
    /\ zipped \in {NoArchive, OldArchive}
    /\ teamsapp = "installs"
    /\ Untouched

NextRoundTrip ==
    TripMaterialize \/ TripRevise \/ TripArchive \/ TripExtract \/ TripRematerialize

SpecRoundTrip == InitRoundTrip /\ [][NextRoundTrip]_vars

-----------------------------------------------------------------------------
(* Re-runs: the template folder may be removed and restored, the socket    *)
(* document replaced, and materialization and revision called in any      *)
(* order over a folder that may hold a file of the operator's own.         *)

NOTES_FILE == "notes.txt"

RerunSockets ==
    { SocketMissing, SocketOf(<<EmailCap>>),
      SocketOf(<<WebSearchCap, OneDriveWithItems(<<FileItem>>)>>),
      SocketOf(<<EmailCap, NonObject>>) }

\* The operator deletes templates/default, or puts it back.
EditTemplate ==
    /\ template' = [template EXCEPT !.exists = ~@]
    /\ last' = Done("edit_template", "ok")
    /\ buckets' = NoBuckets
    /\ ret' = RetNone
    /\ trip' = "none"
    /\ UNCHANGED <<socket, raw, uuids, agent, created, issued, zipped, teamsapp, runs,
                   deploy>>

RerunSocket ==
    \E s \in RerunSockets :
        /\ s # socket
        /\ socket' = s
        /\ last' = Done("write_socket", "ok")
        /\ buckets' = NoBuckets
        /\ ret' = RetNone
        /\ trip' = "none"
        /\ UNCHANGED <<template, raw, uuids, agent, created, issued, zipped,
                       teamsapp, runs, deploy>>

\* trip tells a materialization that completed right after a completed
\* revision from any other.
RerunCreate ==
    \E text \in Texts, existing_ids \in ExistingIds :
        /\ CreateCall(text[1], text[2], existing_ids)
        /\ trip' = IF last'.outcome = "ok" /\ trip \in {"revised once", "revised again"}
                   THEN "materialized over revision"
                   ELSE "none"
        /\ UNCHANGED deploy

\* trip counts the revisions that completed one after the other, with no
\* other operation in between.
RerunRevise ==
    /\ ReviseCall
    /\ trip' = IF last'.outcome # "ok" THEN "none"
               ELSE IF trip \in {"revised once", "revised again"} THEN "revised again"
               ELSE "revised once"
    /\ UNCHANGED deploy

InitRerun ==
    /\ template \in TemplateFolders
    /\ socket \in RerunSockets
    /\ raw \in {NoFolder, FolderWith((NOTES_FILE :> "operator notes"))}
    /\ agent = AgentName
    /\ zipped = NoArchive
    /\ teamsapp = "installs"
    /\ Untouched

NextRerun == EditTemplate \/ RerunSocket \/ RerunCreate \/ RerunRevise

SpecRerun == InitRerun /\ [][NextRerun]_vars

-----------------------------------------------------------------------------

(* Materialization, revision and archiving called in any order, the        *)
(* template in place and the socket document left as it is.                *)

InitOperations ==
    /\ template \in { t \in TemplateFolders : t.exists }
    /\ socket \in RerunSockets
    /\ raw = NoFolder
    /\ agent = AgentName
    /\ zipped = NoArchive
    /\ teamsapp = "installs"
    /\ Untouched

NextOperations == CreateRawManifest \/ ReviseDaManifest \/ ZipManifest

SpecOperations == InitOperations /\ [][NextOperations]_vars

-----------------------------------------------------------------------------

(* Two processes call create_raw_manifest(agent) at the same time.  Each   *)
(* activation advances one file-system call at a time: the mkdir, the      *)
(* template check, for every template file the open of the destination     *)
(* (which truncates it) and the write, then for each document the load,    *)
(* the open for writing and the dump.  What the code computes in memory    *)
(* between two calls is part of the later one.  Both processes pass the    *)
(* default description and instructions.                                   *)

\* A file that was opened for writing and not written yet: json.load rejects
\* the empty text of a document, and an image holds no bytes.
EmptyFile == [notjson |-> ""]
Truncated(f) ==
    IF f \in {APP_MANIFEST_FILENAME, MANIFEST_FILENAME} THEN EmptyFile ELSE ""

\* The order in which TEMPLATE_FOLDER.iterdir() lists the template files
TemplateListing ==
    <<APP_MANIFEST_FILENAME, MANIFEST_FILENAME, COLOR_ICON, OUTLINE_ICON>>

Other(p) == CHOOSE q \in Procs : q # p

Line(p) == Done("create_raw_manifest line", p)

\* The activation of p moves to the call at `pc`
Goto(p, pc) == [runs EXCEPT ![p].pc = pc]

\* The activation of p ends, by `return manifest_folder` or by an exception.
Leave(p, outcome) ==
    /\ runs' = [runs EXCEPT ![p].pc = "done", ![p].outcome = outcome, ![p].doc = <<>>]
    /\ last' = Done("create_raw_manifest", outcome)
    /\ ret' = IF outcome = "ok" THEN RetPath("raw_manifests/" \o agent) ELSE Raised
    /\ created' = [existing_ids |-> runs[p].existing_ids, ids |-> runs[p].ids]

WriteFile(f, content) ==
    raw' = [raw EXCEPT !.files = Put(@, f, content)]

\* manifest.py lines 14-44: the call is entered and the folder made
RunEnter(p) ==
    \E existing_ids \in ExistingIds :
        /\ runs[p].pc = "idle"
        /\ runs' = [runs EXCEPT ![p].pc = "check",
                                ![p].existing_ids = existing_ids,
                                ![p].met = runs[Other(p)].pc]
        /\ raw' = [raw EXCEPT !.exists = TRUE]
        /\ last' = Line(p)
        /\ UNCHANGED <<template, socket, uuids, buckets, agent, created, issued,
                       zipped, teamsapp, deploy, ret, trip>>

\* manifest.py lines 47-48
RunCheck(p) ==
    /\ runs[p].pc = "check"
    /\ IF template.exists
       THEN /\ runs' = Goto(p, "copy open")
            /\ last' = Line(p)
            /\ UNCHANGED <<ret, created>>
       ELSE Leave(p, "FileNotFoundError: Template folder not found")
    /\ UNCHANGED <<template, socket, raw, uuids, buckets, agent, issued, zipped,
                   teamsapp, deploy, trip>>

\* manifest.py lines 50-52: shutil.copy2 opens the destination for writing
RunCopyOpen(p) ==
    /\ runs[p].pc = "copy open"
    /\ WriteFile(TemplateListing[runs[p].copied + 1],
                 Truncated(TemplateListing[runs[p].copied + 1]))
    /\ runs' = Goto(p, "copy write")
    /\ last' = Line(p)
    /\ UNCHANGED <<template, socket, uuids, buckets, agent, created, issued,
                   zipped, teamsapp, deploy, ret, trip>>

\* manifest.py lines 50-52: shutil.copy2 writes the template file's bytes
RunCopyWrite(p) ==
    /\ runs[p].pc = "copy write"
    /\ WriteFile(TemplateListing[runs[p].copied + 1],
                 template.files[TemplateListing[runs[p].copied + 1]])
    /\ runs' = [runs EXCEPT ![p].copied = @ + 1,
                            ![p].pc = IF runs[p].copied + 1 = Len(TemplateListing)
                                      THEN "ids" ELSE "copy open"]
    /\ last' = Line(p)
    /\ UNCHANGED <<template, socket, uuids, buckets, agent, created, issued,
                   zipped, teamsapp, deploy, ret, trip>>

\* manifest.py lines 55-61
RunIds(p) ==
    /\ runs[p].pc = "ids"
    /\ runs[p].existing_ids = None => uuids + 2 <= 2 * MaxCreates
    /\ LET reuse == runs[p].existing_ids # None
           ids == IF reuse THEN runs[p].existing_ids
                  ELSE <<Uuid4(uuids + 1), Uuid4(uuids + 2)>>
       IN  /\ runs' = [runs EXCEPT ![p].ids = ids, ![p].pc = "load app"]
           /\ uuids' = IF reuse THEN uuids ELSE uuids + 2
           /\ issued' = IF reuse THEN issued ELSE issued \cup {ids}
    /\ last' = Line(p)
    /\ UNCHANGED <<template, socket, raw, buckets, agent, created, zipped,
                   teamsapp, deploy, ret, trip>>

\* manifest.py lines 63-80: manifest.json is loaded and stamped in memory
RunLoadApp(p) ==
    /\ runs[p].pc = "load app"
    /\ IF IsJson(raw.files[APP_MANIFEST_FILENAME])
       THEN /\ runs' = [runs EXCEPT
                          ![p].pc = "open app",
                          ![p].doc = StampAppManifest(raw.files[APP_MANIFEST_FILENAME],
                                                      agent, "-", runs[p].ids[1],
                                                      runs[p].ids[2])]
            /\ last' = Line(p)
            /\ UNCHANGED <<ret, created>>
       ELSE Leave(p, "JSONDecodeError")
    /\ UNCHANGED <<template, socket, raw, uuids, buckets, agent, issued, zipped,
                   teamsapp, deploy, trip>>

\* manifest.py line 83
RunOpenApp(p) ==
    /\ runs[p].pc = "open app"
    /\ WriteFile(APP_MANIFEST_FILENAME, EmptyFile)
    /\ runs' = Goto(p, "dump app")
    /\ last' = Line(p)
    /\ UNCHANGED <<template, socket, uuids, buckets, agent, created, issued,
                   zipped, teamsapp, deploy, ret, trip>>

\* manifest.py line 84
RunDumpApp(p) ==
    /\ runs[p].pc = "dump app"
    /\ WriteFile(APP_MANIFEST_FILENAME, runs[p].doc)
    /\ runs' = [runs EXCEPT ![p].pc = "load agent", ![p].doc = <<>>]
    /\ last' = Line(p)
    /\ UNCHANGED <<template, socket, uuids, buckets, agent, created, issued,
                   zipped, teamsapp, deploy, ret, trip>>

\* manifest.py lines 86-101: declarativeAgent_0.json is loaded and stamped in
\* memory
RunLoadAgent(p) ==
    /\ runs[p].pc = "load agent"
    /\ IF IsJson(raw.files[MANIFEST_FILENAME])
       THEN /\ runs' = [runs EXCEPT
                          ![p].pc = "open agent",
                          ![p].doc = StampDAManifest(raw.files[MANIFEST_FILENAME],
                                                     agent, "-", "-", runs[p].ids[2])]
            /\ last' = Line(p)
            /\ UNCHANGED <<ret, created>>
       ELSE Leave(p, "JSONDecodeError")
    /\ UNCHANGED <<template, socket, raw, uuids, buckets, agent, issued, zipped,
                   teamsapp, deploy, trip>>

\* manifest.py line 104
RunOpenAgent(p) ==
    /\ runs[p].pc = "open agent"
    /\ WriteFile(MANIFEST_FILENAME, EmptyFile)
    /\ runs' = Goto(p, "dump agent")
    /\ last' = Line(p)
    /\ UNCHANGED <<template, socket, uuids, buckets, agent, created, issued,
                   zipped, teamsapp, deploy, ret, trip>>

\* manifest.py lines 105-111
RunDumpAgent(p) ==
    /\ runs[p].pc = "dump agent"
    /\ WriteFile(MANIFEST_FILENAME, runs[p].doc)
    /\ Leave(p, "ok")
    /\ UNCHANGED <<template, socket, uuids, buckets, agent, issued, zipped,
                   teamsapp, deploy, trip>>

RunStep(p) ==
    \/ RunEnter(p)
    \/ RunCheck(p)
    \/ RunCopyOpen(p)
    \/ RunCopyWrite(p)
    \/ RunIds(p)
    \/ RunLoadApp(p)
    \/ RunOpenApp(p)
    \/ RunDumpApp(p)
    \/ RunLoadAgent(p)
    \/ RunOpenAgent(p)
    \/ RunDumpAgent(p)

InitRace ==
    /\ template \in TemplateFolders
    /\ socket = SocketMissing
    /\ raw = NoFolder
    /\ agent = AgentName
    /\ zipped = NoArchive
    /\ teamsapp = "installs"
    /\ Untouched

NextRace == \E p \in Procs : RunStep(p)

SpecRace == InitRace /\ [][NextRace]_vars

-----------------------------------------------------------------------------

(* Properties *)

AppManifest == raw.files[APP_MANIFEST_FILENAME]
DAManifest == raw.files[MANIFEST_FILENAME]

Created == last = Done("create_raw_manifest", "ok")
Revised == last = Done("revise_da_manifest", "ok")

InSeq(x, s) == \E i \in DOMAIN s : s[i] = x

ExperimentalName(c) ==
    NameIs(c, CAPABILITY_WEBSEARCH) \/ NameIs(c, CAPABILITY_PAGES)

\* C1: after create_raw_manifest completes, the id of declarativeAgent_0.json
\* equals copilotAgents.declarativeAgents[0].id of manifest.json, on the
\* generated-id path and on the reuse-id path.
C1_CrossDocumentIdentity ==
    Created =>
        /\ Has(DAManifest, "id")
        /\ DAManifest["id"] =
              AppManifest["copilotAgents"]["declarativeAgents"][1]["id"]
        /\ DAManifest["id"] \in {Uuid4(uuids), "kept-agent-id"}

C1_Witness ==
    /\ Created
    /\ DAManifest["id"] = "kept-agent-id"
    /\ AppManifest["id"] = "kept-manifest-id"
    /\ uuids > 0

TableNames ==
    {CAPABILITY_ONEDRIVE_SHAREPOINT, CAPABILITY_WEBSEARCH, CAPABILITY_EMAIL,
     CAPABILITY_MEETINGS}

NamedIn(c, names) == Has(c, FIELD_NAME) /\ c[FIELD_NAME] \in names

KeptAsRegular(c) ==
    /\ InSeq(c, buckets.regular)
    /\ ~InSeq(c, buckets.experimental)
    /\ InSeq(c, DAManifest[FIELD_CAPABILITIES])

\* C3 as stated: every socket record whose name is none of OneDriveAndSharePoint,
\* WebSearch, Email and Meetings is routed to the regular list and appears in
\* `capabilities` with exactly the fields and values it had in the socket.
C3_OtherNamesRegular_AsStated ==
    Revised =>
        \A i \in DOMAIN socket.caps :
            ~NamedIn(socket.caps[i], TableNames) => KeptAsRegular(socket.caps[i])

\* C3 as amended: every socket record whose name is none of OneDriveAndSharePoint,
\* WebSearch, Email, Meetings and Pages is routed to the regular list and appears
\* in `capabilities` with exactly the fields and values it had in the socket.
C3_OtherNamesRegular ==
    Revised =>
        \A i \in DOMAIN socket.caps :
            ~NamedIn(socket.caps[i], TableNames \cup {CAPABILITY_PAGES}) =>
                KeptAsRegular(socket.caps[i])

C3_Witness ==
    /\ Revised
    /\ socket.caps = <<LowerCaseCap, NamelessCap>>
    /\ DAManifest[FIELD_CAPABILITIES] = <<LowerCaseCap, NamelessCap>>

EligibleRecords(caps) == SelectSeq(caps, LAMBDA c : ExperimentalName(c))

\* C4: after revise_da_manifest returns, the written document has no
\* x-experimental_capabilities key when the socket holds no WebSearch or Pages
\* record, and otherwise the key holds exactly those records in socket order;
\* this for every manifest the reviser can be run on, one that an earlier
\* revision wrote experimental capabilities into included.
C4_ExperimentalPresenceRule ==
    Revised =>
        IF Len(EligibleRecords(socket.caps)) = 0
        THEN ~Has(DAManifest, FIELD_EXPERIMENTAL_CAPABILITIES)
        ELSE /\ Has(DAManifest, FIELD_EXPERIMENTAL_CAPABILITIES)
             /\ DAManifest[FIELD_EXPERIMENTAL_CAPABILITIES] =
                    EligibleRecords(socket.caps)

\* A regular entry r that the loop derives from the socket record c: c itself,
\* or for OneDriveAndSharePoint a record of c's fields (items cleaned) and the
\* default fields.
DerivedFrom(c, r) ==
    \/ r = c
    \/ /\ NameIs(c, CAPABILITY_ONEDRIVE_SHAREPOINT)
       /\ NameIs(r, CAPABILITY_ONEDRIVE_SHAREPOINT)
       /\ DOMAIN r = (DOMAIN c) \cup (DOMAIN CAPABILITY_DEFAULT_FIELDS)
       /\ \A k \in (DOMAIN c) \ {FIELD_ITEMS_BY_SHAREPOINT_IDS} : r[k] = c[k]
       /\ Has(c, FIELD_ITEMS_BY_SHAREPOINT_IDS) =>
             Len(r[FIELD_ITEMS_BY_SHAREPOINT_IDS]) = Len(c[FIELD_ITEMS_BY_SHAREPOINT_IDS])

RegularRecords(caps) == SelectSeq(caps, LAMBDA c : ~ExperimentalName(c))

\* C5: revising a manifest that already carries `capabilities` replaces the
\* field: afterwards it lists, entry for entry, records derived from the current
\* socket's non-experimental records and nothing else.
C5_CapabilitiesReplaced ==
    Revised =>
        /\ Has(DAManifest, FIELD_CAPABILITIES)
        /\ Len(DAManifest[FIELD_CAPABILITIES]) = Len(RegularRecords(socket.caps))
        /\ \A j \in DOMAIN DAManifest[FIELD_CAPABILITIES] :
              DerivedFrom(RegularRecords(socket.caps)[j], DAManifest[FIELD_CAPABILITIES][j])
        /\ ~InSeq([name |-> "TemplateCapability"], DAManifest[FIELD_CAPABILITIES])

\* A revision of a manifest whose capabilities came from the template and from
\* an earlier revision of another socket (the experimental entry is its trace).
C5_Witness ==
    /\ Revised
    /\ Has(template.files[MANIFEST_FILENAME], FIELD_CAPABILITIES)
    /\ socket.caps = <<EmailCap>>
    /\ Has(DAManifest, FIELD_EXPERIMENTAL_CAPABILITIES)
    /\ DAManifest[FIELD_CAPABILITIES] = <<EmailCap>>

\* The records of caps at the positions where mask has value v, in order.
RECURSIVE PickFrom(_, _, _, _)
PickFrom(caps, mask, v, i) ==
    IF i > Len(caps) THEN <<>>
    ELSE (IF mask[i] = v THEN <<caps[i]>> ELSE <<>>) \o PickFrom(caps, mask, v, i + 1)

SameRecordOrOneDrive(c, r) ==
    IF NameIs(c, CAPABILITY_ONEDRIVE_SHAREPOINT)
    THEN NameIs(r, CAPABILITY_ONEDRIVE_SHAREPOINT)
    ELSE r = c

\* C6: revise_da_manifest places every socket record, one without a name
\* included, in exactly one of the two lists: together they hold as many
\* entries as the socket, and each lists its records in the socket's order.
C6_PartitionInOrder ==
    Revised =>
        /\ Len(buckets.regular) + Len(buckets.experimental) = Len(socket.caps)
        /\ \E mask \in [DOMAIN socket.caps -> BOOLEAN] :
              LET reg == PickFrom(socket.caps, mask, TRUE, 1)
                  exp == PickFrom(socket.caps, mask, FALSE, 1)
              IN  /\ buckets.experimental = exp
                  /\ Len(buckets.regular) = Len(reg)
                  /\ \A j \in DOMAIN reg :
                        SameRecordOrOneDrive(reg[j], buckets.regular[j])
        /\ DAManifest[FIELD_CAPABILITIES] = buckets.regular

C6_Witness ==
    /\ Revised
    /\ socket.caps = <<NamelessCap, EmailCap>>
    /\ buckets.regular = <<NamelessCap, EmailCap>>

\* The regular entry made from the socket record at position i.
RegularEntryOf(i) ==
    buckets.regular[Len(RegularRecords(SubSeq(socket.caps, 1, i)))]

Renamed ==
    (FIELD_X_PART_ID :> FIELD_PART_ID) @@ (FIELD_X_PART_TYPE :> FIELD_PART_TYPE)

Dropped == {FIELD_TYPE, FIELD_NAME}

\* The record's own fields other than the item list are kept, and the item
\* list keeps its length.
TopLevelKept(c, r) ==
    /\ \A k \in (DOMAIN c) \ {FIELD_ITEMS_BY_SHAREPOINT_IDS} : Has(r, k) /\ r[k] = c[k]
    /\ Has(c, FIELD_ITEMS_BY_SHAREPOINT_IDS) =>
          /\ Has(r, FIELD_ITEMS_BY_SHAREPOINT_IDS)
          /\ Len(r[FIELD_ITEMS_BY_SHAREPOINT_IDS]) = Len(c[FIELD_ITEMS_BY_SHAREPOINT_IDS])

\* The item as the claim states it: type and name gone, the x- fields under
\* their new names, every other field unchanged.
ItemCleanedAsStated(item, out) ==
    /\ \A k \in Dropped \cup DOMAIN Renamed : ~Has(out, k)
    /\ \A k \in (DOMAIN Renamed) \cap (DOMAIN item) :
          Has(out, Renamed[k]) /\ out[Renamed[k]] = item[k]
    /\ \A k \in (DOMAIN item) \ (Dropped \cup DOMAIN Renamed) :
          Has(out, k) /\ out[k] = item[k]
    /\ \A k \in DOMAIN out :
          \/ k \in DOMAIN item
          \/ \E x \in (DOMAIN Renamed) \cap (DOMAIN item) : Renamed[x] = k

\* The same, except that a part_id (part_type) of the item's own gives way to
\* the value of its x-part_id (x-part_type) when the item carries both.
ItemCleaned(item, out) ==
    /\ \A k \in Dropped \cup DOMAIN Renamed : ~Has(out, k)
    /\ \A k \in (DOMAIN Renamed) \cap (DOMAIN item) :
          Has(out, Renamed[k]) /\ out[Renamed[k]] = item[k]
    /\ \A k \in (DOMAIN item) \ (Dropped \cup DOMAIN Renamed) :
          \/ \E x \in (DOMAIN Renamed) \cap (DOMAIN item) : Renamed[x] = k
          \/ Has(out, k) /\ out[k] = item[k]
    /\ \A k \in DOMAIN out :
          \/ k \in DOMAIN item
          \/ \E x \in (DOMAIN Renamed) \cap (DOMAIN item) : Renamed[x] = k

ItemOutcome(item, out, asStated) ==
    IF asStated THEN ItemCleanedAsStated(item, out) ELSE ItemCleaned(item, out)

OneDriveItemsSatisfy(asStated) ==
    \A i \in DOMAIN socket.caps :
        LET c == socket.caps[i]
        IN  NameIs(c, CAPABILITY_ONEDRIVE_SHAREPOINT) =>
                /\ TopLevelKept(c, RegularEntryOf(i))
                /\ Has(c, FIELD_ITEMS_BY_SHAREPOINT_IDS) =>
                      \A k \in DOMAIN c[FIELD_ITEMS_BY_SHAREPOINT_IDS] :
                          ItemOutcome(c[FIELD_ITEMS_BY_SHAREPOINT_IDS][k],
                                      RegularEntryOf(i)[FIELD_ITEMS_BY_SHAREPOINT_IDS][k],
                                      asStated)

\* C7 as stated: every item of an OneDriveAndSharePoint record's
\* items_by_sharepoint_ids is emitted without type and name, with x-part_id and
\* x-part_type renamed to part_id and part_type, and with every other field
\* unchanged; the record's top-level fields (its name included) are kept; items
\* keep order and count.
C7_ItemCleanup_AsStated == Revised => OneDriveItemsSatisfy(TRUE)

\* C7 as amended: the same, except that when an item carries both x-part_id and
\* part_id (x-part_type and part_type), the emitted part_id (part_type) holds the
\* x- field's value and the item's own part_id (part_type) value is lost.
C7_ItemCleanup == Revised => OneDriveItemsSatisfy(FALSE)

C7_Witness ==
    /\ Revised
    /\ socket.caps =
          << OneDriveWithItems(
                << ItemOver({FIELD_TYPE, FIELD_X_PART_ID, FIELD_PART_ID, "site_id"}),
                   ItemOver({FIELD_NAME, FIELD_X_PART_TYPE, "site_id"}) >>) >>
    /\ buckets.regular[1][FIELD_ITEMS_BY_SHAREPOINT_IDS] =
          << (FIELD_PART_ID :> "x-part-id-1") @@ ("site_id" :> "s"),
             (FIELD_PART_TYPE :> "x-part-type-1") @@ ("site_id" :> "s") >>
    /\ buckets.regular[1][FIELD_NAME] = CAPABILITY_ONEDRIVE_SHAREPOINT

ReviseStep == last'.op = "revise_da_manifest"

\* C9: revise_da_manifest signals socket-not-found when the name has no socket
\* document and manifest-not-found when the manifest has not been materialized;
\* whenever it raises (missing file, socket that is not JSON, socket element or
\* item that is no record), the manifest folder on disk is as before the call.
C9_RaiseLeavesManifest ==
    [][ ReviseStep =>
          /\ ~socket.exists =>
                last'.outcome = "FileNotFoundError: Socket file not found"
          /\ (socket.exists /\ MANIFEST_FILENAME \notin DOMAIN raw.files) =>
                last'.outcome = "FileNotFoundError: Manifest file not found"
          /\ (socket.exists /\ ~socket.parses) => last'.outcome # "ok"
          /\ (\E i \in DOMAIN socket.caps : ~IsObject(socket.caps[i])) =>
                last'.outcome # "ok"
          /\ last'.outcome # "ok" => raw' = raw
      ]_vars

\* A revision that raised on a socket element that is no record, against a
\* manifest an earlier revision had written.
C9_Witness ==
    /\ last = Done("revise_da_manifest", "AttributeError")
    /\ socket.caps = <<EmailCap, NonObject>>
    /\ MANIFEST_FILENAME \in DOMAIN raw.files
    /\ Has(DAManifest, FIELD_EXPERIMENTAL_CAPABILITIES)

\* C10: after every successful revise_da_manifest run, whatever the socket
\* holds, the written document has x-force_fluxv3 true and behavior_overrides
\* equal to {special_instructions: {discourage_model_knowledge: true}}.
C10_FlagAndOverrides ==
    Revised =>
        /\ Has(DAManifest, FIELD_FORCE_FLUXV3)
        /\ DAManifest[FIELD_FORCE_FLUXV3] = JTrue
        /\ Has(DAManifest, FIELD_BEHAVIOR_OVERRIDES)
        /\ DAManifest[FIELD_BEHAVIOR_OVERRIDES] =
              [special_instructions |-> [discourage_model_knowledge |-> JTrue]]

\* A second revision of the same folder, of a socket other than the first's,
\* where the template shipped a flag and an override object of its own.
C10_Witness ==
    /\ Revised
    /\ Has(template.files[MANIFEST_FILENAME], FIELD_BEHAVIOR_OVERRIDES)
    /\ socket.caps = <<EmailCap, OneDriveWithItems(<<FileItem>>)>>
    /\ Has(DAManifest, FIELD_EXPERIMENTAL_CAPABILITIES)

HasFile(folder, f) == f \in DOMAIN folder.files

\* The document f of the folder carries what the revision of this socket
\* produces: the regular list, the experimental list when it is not empty,
\* the flag and the override object.
CarriesRevision(folder, f) ==
    /\ HasFile(folder, f)
    /\ Has(folder.files[f], FIELD_CAPABILITIES)
    /\ folder.files[f][FIELD_CAPABILITIES] = buckets'.regular
    /\ Len(buckets'.experimental) > 0 =>
          /\ Has(folder.files[f], FIELD_EXPERIMENTAL_CAPABILITIES)
          /\ folder.files[f][FIELD_EXPERIMENTAL_CAPABILITIES] = buckets'.experimental
    /\ Has(folder.files[f], FIELD_FORCE_FLUXV3)
    /\ folder.files[f][FIELD_FORCE_FLUXV3] = JTrue
    /\ Has(folder.files[f], FIELD_BEHAVIOR_OVERRIDES)
    /\ folder.files[f][FIELD_BEHAVIOR_OVERRIDES] = FIELD_BEHAVIOR_OVERRIDES_VALUE

\* A revision reads and rewrites the document f: it signals manifest-not-found
\* exactly when the socket exists and f does not, and when it completes, f
\* carries the capability fields.
RevisionIsOf(f) ==
    ReviseStep =>
        /\ socket.exists =>
              (last'.outcome = "FileNotFoundError: Manifest file not found"
                  <=> ~HasFile(raw, f))
        /\ last'.outcome = "ok" => CarriesRevision(raw', f)

\* C11 as stated: the capability fields produced by revision are written into
\* the app-level document manifest.json (the one with name.short, name.full and
\* the nested declarative-agent id), and the reviser's manifest-not-found check
\* is made on that document.
C11_RevisesAppDocument_AsStated == [][RevisionIsOf(APP_MANIFEST_FILENAME)]_vars

\* C11 as amended: the capability fields produced by revision are written into
\* the agent-level document declarativeAgent_0.json (the one with id, name,
\* description and instructions), the reviser's manifest-not-found check is
\* made on that document, and manifest.json is neither required nor changed.
C11_RevisesAgentDocument ==
    [][ /\ RevisionIsOf(MANIFEST_FILENAME)
        /\ ReviseStep =>
              /\ HasFile(raw', APP_MANIFEST_FILENAME) = HasFile(raw, APP_MANIFEST_FILENAME)
              /\ HasFile(raw, APP_MANIFEST_FILENAME) =>
                    raw'.files[APP_MANIFEST_FILENAME] = raw.files[APP_MANIFEST_FILENAME]
      ]_vars

\* A completed revision of a folder that holds no manifest.json, and a
\* manifest-not-found on a folder that holds manifest.json only.
C11_Witness ==
    \/ /\ Revised
       /\ ~HasFile(raw, APP_MANIFEST_FILENAME)
       /\ DAManifest[FIELD_CAPABILITIES] = <<EmailCap>>
    \/ /\ last = Done("revise_da_manifest", "FileNotFoundError: Manifest file not found")
       /\ HasFile(raw, APP_MANIFEST_FILENAME)
       /\ raw.files[APP_MANIFEST_FILENAME] = BaseApp

\* C12: create_raw_manifest sets name.short of manifest.json to the agent name
\* when it has at most 30 characters and to exactly its first 30 characters
\* otherwise, so name.short never exceeds 30 characters; name.full of
\* manifest.json and name of declarativeAgent_0.json are the untruncated name.
C12_ShortNameTruncation ==
    Created =>
        LET short == AppManifest["name"]["short"]
        IN  /\ Len(agent) <= 30 => short = agent
            /\ Len(agent) > 30 =>
                  /\ Len(short) = 30
                  /\ short \o SubSeq(agent, 31, Len(agent)) = agent
            /\ Len(short) <= 30
            /\ AppManifest["name"]["full"] = agent
            /\ DAManifest["name"] = agent

\* The materialization of a 31-character name
C12_Witness ==
    /\ Created
    /\ agent = Name31
    /\ AppManifest["name"]["short"] = Name30
    /\ AppManifest["name"]["full"] = Name31
    /\ DAManifest["name"] = Name31

CreateStep == last'.op = "create_raw_manifest"

NestedAgentId(app) == app["copilotAgents"]["declarativeAgents"][1]["id"]

\* C13: when create_raw_manifest is given existing_ids = (manifest_id,
\* agent_id), the id of manifest.json is exactly manifest_id, the nested
\* declarative-agent id of manifest.json and the id of declarativeAgent_0.json
\* are exactly agent_id, and no identifier is generated.
C13_ReuseIdsVerbatim ==
    [][ (CreateStep /\ last'.outcome = "ok" /\ created'.existing_ids # None) =>
          /\ raw'.files[APP_MANIFEST_FILENAME]["id"] = created'.existing_ids[1]
          /\ NestedAgentId(raw'.files[APP_MANIFEST_FILENAME]) = created'.existing_ids[2]
          /\ raw'.files[MANIFEST_FILENAME]["id"] = created'.existing_ids[2]
          /\ uuids' = uuids
          /\ issued' = issued
      ]_vars

\* A materialization with reuse-ids over a folder that held a generated
\* identity.
C13_Witness ==
    /\ Created
    /\ created.existing_ids = <<"kept-manifest-id", "kept-agent-id">>
    /\ issued = {<<Uuid4(1), Uuid4(2)>>}
    /\ AppManifest["id"] = "kept-manifest-id"
    /\ NestedAgentId(AppManifest) = "kept-agent-id"
    /\ DAManifest["id"] = "kept-agent-id"

\* The identity a folder's manifest.json carries, None when it carries none
IdentityOf(folder) ==
    IF HasFile(folder, APP_MANIFEST_FILENAME) /\ IsJson(folder.files[APP_MANIFEST_FILENAME])
    THEN IdsOf(folder.files[APP_MANIFEST_FILENAME])
    ELSE None

\* C14: a materialization made without reuse-ids writes a (manifest id, agent
\* id) pair that no earlier materialization without reuse-ids generated, for
\* whatever description, so the folder's identity differs from the one it had;
\* the materialize stage of deploy_agent never passes reuse-ids, so every
\* deploy_agent run that materializes leaves a new identity.
C14_FreshIdsDiffer ==
    [][ (CreateStep /\ last'.outcome = "ok") =>
          /\ deploy.pc = "create" => created'.existing_ids = None
          /\ created'.existing_ids = None =>
                /\ created'.ids \notin issued
                /\ \A p \in issued : p[1] # created'.ids[1] /\ p[2] # created'.ids[2]
                /\ IdentityOf(raw') = created'.ids
                /\ IdentityOf(raw') # IdentityOf(raw)
                /\ issued' = issued \cup {created'.ids}
      ]_vars

\* Two completed deploy_agent runs, the folder holding the second identity
C14_Witness ==
    /\ deploy.result = "True"
    /\ deploy.stages = <<"validate", "create", "revise", "zip">>
    /\ issued = {<<Uuid4(1), Uuid4(2)>>, <<Uuid4(3), Uuid4(4)>>}
    /\ IdentityOf(raw) = <<Uuid4(3), Uuid4(4)>>
    /\ IdsOf(zipped.entries[APP_MANIFEST_FILENAME]) = <<Uuid4(3), Uuid4(4)>>

ZipStep == last'.op = "zip_manifest"

\* C15: after zip_manifest succeeds, the archive holds exactly the files that
\* are in the agent's folder at that moment, each under its relative path and
\* with its content (a file in nested subfolders included, no entry at all for
\* an empty folder); no entry of an archive that was there before is present
\* unless the file is still in the folder.
C15_ArchiveIsFolder ==
    [][ (ZipStep /\ last'.outcome = "ok") =>
          /\ zipped'.exists
          /\ DOMAIN zipped'.entries = DOMAIN raw.files
          /\ \A f \in DOMAIN raw.files : zipped'.entries[f] = raw.files[f]
          /\ \A f \in (DOMAIN zipped.entries) \ (DOMAIN raw.files) :
                f \notin DOMAIN zipped'.entries
          /\ \A d \in zipped'.dirs : \E f \in DOMAIN raw.files : d \in ParentDirs(f)
          /\ raw.files = <<>> => (zipped'.entries = <<>> /\ zipped'.dirs = {})
          /\ raw' = raw
      ]_vars

\* The archive of a folder with a nested file and without color.png, made
\* where an archive of the materialized folder had been.
C15_Witness ==
    /\ last = Done("zip_manifest", "ok")
    /\ raw = FolderWith(Put(Del(BaseFiles, COLOR_ICON), NESTED_FILE, "icon data"))
    /\ zipped.entries[NESTED_FILE] = "icon data"
    /\ COLOR_ICON \notin DOMAIN zipped.entries
    /\ zipped.dirs = {"assets/", "assets/icons/"}

\* C16: zip_manifest signals folder-not-found when the agent's folder does not
\* exist, and only then; in that case no archive is created and an archive of
\* that name that exists is neither deleted nor changed.
C16_MissingFolderKeepsArchive ==
    [][ ZipStep =>
          /\ ~raw.exists <=>
                last'.outcome = "FileNotFoundError: Manifest folder not found"
          /\ ~raw.exists =>
                /\ zipped'.exists = zipped.exists
                /\ zipped'.entries = zipped.entries
                /\ zipped'.dirs = zipped.dirs
                /\ raw' = raw
      ]_vars

\* folder-not-found signalled while an earlier archive of the name is in place
C16_Witness ==
    /\ last = Done("zip_manifest", "FileNotFoundError: Manifest folder not found")
    /\ ~raw.exists
    /\ zipped.exists
    /\ zipped.entries = BaseFiles

ArchivedApp == zipped.entries[APP_MANIFEST_FILENAME]

\* The archive is missing, or it lacks manifest.json, or that document is not
\* JSON, or it lacks one of the id fields or a container on the way to it.
NothingToExtract ==
    \/ ~zipped.exists
    \/ APP_MANIFEST_FILENAME \notin DOMAIN zipped.entries
    \/ ArchivedApp = NotJson
    \/ ~Has(ArchivedApp, "id")
    \/ ~Has(ArchivedApp, "copilotAgents")
    \/ ~Has(ArchivedApp["copilotAgents"], "declarativeAgents")
    \/ Len(ArchivedApp["copilotAgents"]["declarativeAgents"]) = 0
    \/ ~Has(ArchivedApp["copilotAgents"]["declarativeAgents"][1], "id")

\* C18: extracting the identity from an archive never raises, and it returns
\* None when the archive does not exist, when it holds no manifest.json, when
\* that document is not valid JSON, and when either id field or a container it
\* is nested in is absent.
C18_ExtractNotFound ==
    last.op = "extract_ids_from_zip" =>
        /\ last.outcome = "ok"
        /\ ret # Raised
        /\ NothingToExtract => ret = RetNone

\* None returned for an archive whose manifest.json has a declarative-agent
\* entry without an id
C18_Witness ==
    /\ last = Done("extract_ids_from_zip", "ok")
    /\ zipped.exists
    /\ APP_MANIFEST_FILENAME \in DOMAIN zipped.entries
    /\ ArchivedApp =
          [BaseApp EXCEPT !["copilotAgents"]["declarativeAgents"][1] = Del(@, "id")]
    /\ ret = RetNone

StageOrder == <<"validate", "create", "revise", "zip", "sideload">>

StageCall ==
    [validate |-> "validate_socket_file", create |-> "create_raw_manifest",
     revise |-> "revise_da_manifest", zip |-> "zip_manifest",
     sideload |-> "sideload_to_teams"]

IsPrefix(s, t) == Len(s) <= Len(t) /\ SubSeq(t, 1, Len(s)) = s

Running == deploy.pc # "idle"

\* The step is one of deploy_agent
DeployStep == deploy' # deploy

\* The call the step made came back with success
StageSucceeded ==
    IF deploy.pc \in {"validate", "sideload"} THEN ret' = RetBool(TRUE)
    ELSE last'.outcome = "ok"

LastStage ==
    \/ deploy.pc = "sideload"
    \/ deploy.pc = "zip" /\ deploy.skip_sideload

\* C19: deploy_agent runs its stages in the order validate socket, materialize,
\* revise, archive, install, each started only after the one before succeeded;
\* when a stage fails deploy_agent returns False and runs no later stage, and a
\* run that finds no socket document creates no manifest folder and no archive.
C19_StagesInOrder ==
    /\ [](IsPrefix(deploy.stages, StageOrder))
    /\ [][ /\ (Running /\ DeployStep) =>
                /\ deploy'.stages = Append(deploy.stages, deploy.pc)
                /\ StageOrder[Len(deploy'.stages)] = deploy.pc
                /\ last'.op = StageCall[deploy.pc]
                /\ deploy.pc \notin {"create", "revise"} => raw' = raw
                /\ deploy.pc # "zip" => zipped' = zipped
                /\ IF StageSucceeded
                   THEN IF LastStage
                        THEN deploy'.pc = "idle" /\ deploy'.result = "True"
                        ELSE /\ deploy'.pc = StageOrder[Len(deploy'.stages) + 1]
                             /\ deploy'.result = "running"
                   ELSE deploy'.pc = "idle" /\ deploy'.result = "False"
                /\ (deploy.pc = "validate" /\ ~socket.exists) =>
                      /\ deploy'.result = "False"
                      /\ deploy'.stages = <<"validate">>
                      /\ raw' = raw
                      /\ zipped' = zipped
           /\ (~Running /\ DeployStep) =>
                /\ deploy'.pc = "validate"
                /\ deploy'.stages = <<>>
                /\ raw' = raw
                /\ zipped' = zipped
         ]_vars

\* A run that failed in the revise stage, the socket document having been
\* removed after validation: the folder is materialized, nothing is archived.
C19_Witness ==
    /\ deploy.pc = "idle"
    /\ deploy.result = "False"
    /\ deploy.stages = <<"validate", "create", "revise">>
    /\ last = Done("revise_da_manifest", "FileNotFoundError: Socket file not found")
    /\ raw.exists
    /\ ~zipped.exists

SideloadStep == last'.op = "sideload_to_teams"

\* C20: sideload_to_teams returns False and does not raise when the command
\* exits non-zero, when the command is absent (or cannot be started) and when
\* the archive path is missing; deploy_agent then returns False and the archive
\* the archive stage produced is still there, unchanged.  With skip_sideload
\* set no install step is made, and deploy_agent returns True as soon as the
\* archive is produced.
C20_InstallFailureIsReturned ==
    [][ /\ SideloadStep =>
              /\ last'.outcome = "ok"
              /\ ret' \in {RetBool(TRUE), RetBool(FALSE)}
              /\ (teamsapp # "installs" \/ ~zipped.exists) => ret' = RetBool(FALSE)
              /\ zipped' = zipped
              /\ (Running /\ ret' = RetBool(FALSE)) =>
                    /\ deploy'.pc = "idle"
                    /\ deploy'.result = "False"
                    /\ zipped'.exists
                    /\ zipped'.entries = raw.files
        /\ (Running /\ deploy.skip_sideload) =>
              /\ ~SideloadStep
              /\ (ZipStep /\ last'.outcome = "ok") =>
                    /\ deploy'.pc = "idle"
                    /\ deploy'.result = "True"
                    /\ zipped'.exists
      ]_vars

\* deploy_agent ended with False in the install stage, the command being
\* absent; the archive of the revised folder is in place.
C20_Witness ==
    /\ deploy.pc = "idle"
    /\ deploy.result = "False"
    /\ deploy.stages = StageOrder
    /\ teamsapp = "absent"
    /\ last = Done("sideload_to_teams", "ok")
    /\ ret = RetBool(FALSE)
    /\ zipped.exists
    /\ zipped.entries = raw.files
    /\ Has(zipped.entries[MANIFEST_FILENAME], FIELD_CAPABILITIES)

\* C21: create_raw_manifest raises the template-missing error exactly when
\* the template folder does not exist, and then it copies no file, rewrites
\* no document and draws no identifier: every file the folder held from
\* earlier runs is as it was.
C21_TemplateMissingKeepsFolder ==
    [][ CreateStep =>
          /\ template.exists => last'.outcome = "ok"
          /\ ~template.exists =>
                /\ last'.outcome = "FileNotFoundError: Template folder not found"
                /\ ret' = Raised
                /\ raw'.files = raw.files
                /\ uuids' = uuids
                /\ issued' = issued
      ]_vars

\* The template removed after a materialization and a revision, and
\* materialization called again over the revised folder.
C21_Witness ==
    /\ last = Done("create_raw_manifest", "FileNotFoundError: Template folder not found")
    /\ ~template.exists
    /\ HasFile(raw, NOTES_FILE)
    /\ HasFile(raw, APP_MANIFEST_FILENAME)
    /\ HasFile(raw, MANIFEST_FILENAME)
    /\ Has(DAManifest, FIELD_EXPERIMENTAL_CAPABILITIES)
    /\ DAManifest["id"] = Uuid4(2)

\* C22: a revise_da_manifest run that directly follows another one, with the
\* socket document and the folder untouched in between, leaves every
\* document of the folder equal to what the first run left, ends as the first
\* run ended and returns what it returned.
C22_ReviseIdempotent ==
    [][ (ReviseStep /\ last.op = "revise_da_manifest") =>
          /\ raw' = raw
          /\ last' = last
          /\ ret' = ret
          /\ buckets' = buckets
      ]_vars

\* Two revisions in a row of a materialized manifest, the socket holding a
\* WebSearch record and a OneDrive record.
C22_Witness ==
    /\ trip = "revised again"
    /\ Revised
    /\ socket = SocketOf(<<WebSearchCap, OneDriveWithItems(<<FileItem>>)>>)
    /\ DAManifest[FIELD_EXPERIMENTAL_CAPABILITIES] = <<WebSearchCap>>
    /\ Len(DAManifest[FIELD_CAPABILITIES]) = 1
    /\ ret = RetManifest(DAManifest)

\* The fields create_raw_manifest stamps at the top level of each document
StampedAgentFields == {"id", "name", "description", "instructions"}
StampedAppFields == {"id", "name", "description", "copilotAgents"}

\* C23: after create_raw_manifest succeeds, over whatever an earlier run
\* (a revision included) left in the folder, declarativeAgent_0.json and
\* manifest.json are the template's documents with only the ids, the names,
\* the full description and the instructions restamped, so that no capability
\* field of an earlier revision is left; the other template files are the
\* template's, and a file of the folder that the template does not hold is as
\* it was.
C23_MaterializeOverwrites ==
    [][ (CreateStep /\ last'.outcome = "ok") =>
          LET app == raw'.files[APP_MANIFEST_FILENAME]
              da == raw'.files[MANIFEST_FILENAME]
              tapp == template.files[APP_MANIFEST_FILENAME]
              tda == template.files[MANIFEST_FILENAME]
          IN  /\ DOMAIN da = DOMAIN tda
              /\ \A k \in DOMAIN tda \ StampedAgentFields : da[k] = tda[k]
              /\ ~Has(da, FIELD_EXPERIMENTAL_CAPABILITIES)
              /\ da["id"] = created'.ids[2]
              /\ da["name"] = agent
              /\ DOMAIN app = DOMAIN tapp
              /\ \A k \in DOMAIN tapp \ StampedAppFields : app[k] = tapp[k]
              /\ app["id"] = created'.ids[1]
              /\ app["name"] = Put(Put(tapp["name"], "short", ShortName(agent)), "full", agent)
              /\ Del(app["description"], "full") = Del(tapp["description"], "full")
              /\ app["copilotAgents"] =
                    [tapp["copilotAgents"] EXCEPT
                        !["declarativeAgents"][1]["id"] = created'.ids[2]]
              /\ \E text \in Texts :
                    /\ app["description"]["full"] = text[1]
                    /\ da["description"] = text[1]
                    /\ da["instructions"] = text[2]
              /\ \A f \in DOMAIN template.files \ {APP_MANIFEST_FILENAME, MANIFEST_FILENAME} :
                    raw'.files[f] = template.files[f]
              /\ DOMAIN raw'.files = DOMAIN raw.files \cup DOMAIN template.files
              /\ \A f \in DOMAIN raw.files \ DOMAIN template.files :
                    raw'.files[f] = raw.files[f]
      ]_vars

\* A materialization with reuse-ids right after a completed revision of the
\* folder an earlier materialization made around the operator's notes file.
C23_Witness ==
    /\ trip = "materialized over revision"
    /\ Created
    /\ created.existing_ids = <<"kept-manifest-id", "kept-agent-id">>
    /\ issued = {<<Uuid4(1), Uuid4(2)>>}
    /\ template.files[MANIFEST_FILENAME] = TemplateDAManifest
    /\ HasFile(raw, MANIFEST_FILENAME)
    /\ DOMAIN DAManifest = StampedAgentFields
    /\ DAManifest["description"] = "-"
    /\ HasFile(raw, NOTES_FILE)
    /\ raw.files[NOTES_FILE] = "operator notes"

\* The fields revise_da_manifest deletes or assigns
CapabilityFields ==
    {FIELD_CAPABILITIES, FIELD_EXPERIMENTAL_CAPABILITIES, FIELD_FORCE_FLUXV3,
     FIELD_BEHAVIOR_OVERRIDES}

\* The two documents of a set of files carry the same declarative-agent id.
SameAgentId(files) ==
    (APP_MANIFEST_FILENAME \in DOMAIN files /\ MANIFEST_FILENAME \in DOMAIN files) =>
        NestedAgentId(files[APP_MANIFEST_FILENAME]) = files[MANIFEST_FILENAME]["id"]

\* C24: a revise_da_manifest run changes declarativeAgent_0.json in the
\* capability fields only (its id, name, description and instructions stay),
\* and changes no other file of the folder, manifest.json included, nor the
\* archive; hence, through every sequence of materializations, revisions and
\* archivings, the id of declarativeAgent_0.json equals the declarative-agent
\* id nested in manifest.json, in the folder and in the archive.
C24_ReviseFrameKeepsIdentity ==
    /\ [](SameAgentId(raw.files) /\ SameAgentId(zipped.entries))
    /\ [][ ReviseStep =>
             /\ raw'.exists = raw.exists
             /\ DOMAIN raw'.files = DOMAIN raw.files
             /\ \A f \in DOMAIN raw.files \ {MANIFEST_FILENAME} :
                   raw'.files[f] = raw.files[f]
             /\ HasFile(raw, MANIFEST_FILENAME) =>
                   /\ (DOMAIN DAManifest) \ CapabilityFields =
                         (DOMAIN raw'.files[MANIFEST_FILENAME]) \ CapabilityFields
                   /\ \A k \in (DOMAIN DAManifest) \ CapabilityFields :
                         raw'.files[MANIFEST_FILENAME][k] = DAManifest[k]
             /\ zipped' = zipped
             /\ uuids' = uuids
        ]_vars

\* An archive made of a folder that was materialized and then revised with a
\* socket holding a WebSearch record.
C24_Witness ==
    /\ last = Done("zip_manifest", "ok")
    /\ HasFile(raw, MANIFEST_FILENAME)
    /\ zipped.entries = raw.files
    /\ Has(DAManifest, FIELD_EXPERIMENTAL_CAPABILITIES)
    /\ DAManifest[FIELD_FORCE_FLUXV3] = JTrue
    /\ DAManifest["id"] = Uuid4(2)
    /\ NestedAgentId(zipped.entries[APP_MANIFEST_FILENAME]) = Uuid4(2)
    /\ DAManifest["instructions"] = "Help with emails"

\* No activation of create_raw_manifest is under way.
NoneRunning == \A p \in Procs : runs[p].pc \in {"idle", "done"}

\* An activation was entered while the other one was under way.
Overlapped == \E p \in Procs : runs[p].met \notin {"idle", "done"}

\* Both documents are JSON and carry the same declarative-agent id.
Consistent(files) ==
    /\ \A f \in {APP_MANIFEST_FILENAME, MANIFEST_FILENAME} \cap DOMAIN files :
          IsJson(files[f])
    /\ SameAgentId(files)

\* C25: create_raw_manifest takes no lock, and two activations for the same
\* agent name may interleave their file-system calls; whenever the
\* activations that ran did so one after the other, the folder they leave
\* holds two JSON documents with the same declarative-agent id, the one the
\* last completed activation wrote (a single activation leaves what one
\* create_raw_manifest call leaves), so a folder whose
\* declarativeAgent_0.json id differs from the id nested in manifest.json is
\* left by overlapping activations only.
C25_MismatchOnlyByOverlap ==
    (NoneRunning /\ ~Overlapped) =>
        /\ Consistent(raw.files)
        /\ last = Done("create_raw_manifest", "ok") =>
              /\ IdentityOf(raw) = created.ids
              /\ DAManifest["id"] = created.ids[2]
        /\ (\E p \in Procs : runs[p].pc = "done" /\ runs[Other(p)].pc = "idle") =>
              raw = create_raw_manifest(NoFolder, template, agent, "-", "-",
                                        created.existing_ids, 0).raw

\* Both activations returned normally, and the folder holds the first one's
\* id in declarativeAgent_0.json and the second one's ids in manifest.json.
C25_Witness ==
    /\ NoneRunning
    /\ Overlapped
    /\ \A p \in Procs : runs[p].outcome = "ok"
    /\ runs["first"].ids = <<Uuid4(1), Uuid4(2)>>
    /\ runs["second"].ids = <<Uuid4(3), Uuid4(4)>>
    /\ IsJson(AppManifest) /\ IsJson(DAManifest)
    /\ DAManifest["id"] = Uuid4(2)
    /\ NestedAgentId(AppManifest) = Uuid4(4)
    /\ AppManifest["id"] = Uuid4(3)

====
